---- MODULE Spec2Model ----
(***************************************************************************)
(* Network identity subsystem of lxc-compose: the IP allocator and the     *)
(* hosts manager of srv/lxc-compose/cli/hosts_manager.py and the hosts     *)
(* file helpers of cli/lxc_compose.py.                                     *)
(*                                                                         *)
(* Files are modelled by their content.  A text file is the sequence of    *)
(* strings that Python's content.split('\n') yields for it (so a file that *)
(* ends with a newline has "" as its last element and the empty file is    *)
(* <<"">>); '\n'.join is the inverse.  Lines are real strings and the      *)
(* string functions of the code (strip, split, substring test, int) are    *)
(* computed character by character.                                        *)
(***************************************************************************)
EXTENDS Integers, Sequences, FiniteSets, Bags, TLC

VARIABLES
    registry,       \* content of /srv/lxc-compose/ip-allocations.json
    etc_hosts,      \* content of /etc/hosts
    shared_hosts,   \* content of /srv/lxc-compose/etc/hosts
    containers,     \* names the container runtime lists (lxc-ls)
    live,           \* the address the runtime reports for each running container
    forwards,       \* config["forwards"] of /srv/lxc-compose/port-forwards.json
    iptables,       \* the installed firewall rules
    saved_ips,      \* content of the saved container IPs file (CONTAINER_IPS_FILE)
    last,           \* the last completed call: operation, arguments, result, files before it
    pc,             \* concurrent invocations: position of each process
    loc,            \* concurrent invocations: local variables of each process
    lock            \* concurrent invocations: holder of the flock on /etc/hosts, 0 when free

vars == <<registry, etc_hosts, shared_hosts, containers, live, forwards, iptables, saved_ips,
          last, pc, loc, lock>>

(***************************************************************************)
(* Bounds of the model.                                                    *)
(***************************************************************************)
\* A run makes at most MaxFresh new allocations from its initial next_ip.
MaxFresh == 4
\* next_ip of a registry that has already seen many allocate/release rounds.
HighWater == 252
\* A hosts file is rewritten only while it has fewer lines than MaxFileLines.
MaxFileLines == 9
\* A run of hosts calls makes at most MaxHostFresh new allocations.
MaxHostFresh == 2
\* The port-forward registry holds at most MaxForwards rules.
MaxForwards == 2
\* At most MaxRules firewall rules are installed.
MaxRules == 5
\* The FORWARD chain holds at most MaxChain rules.
MaxChain == 8

\* Container names the calls are made with.
Names == {"web", "db", "cache"}

(***************************************************************************)
(* Strings.                                                                *)
(***************************************************************************)
Char(s, i) == SubSeq(s, i, i)

\* str.isspace for the characters that occur
IsSpace(c) == c \in {" ", "\t"}

RECURSIVE LStrip(_)
LStrip(s) ==
    IF Len(s) > 0 /\ IsSpace(Char(s, 1)) THEN LStrip(SubSeq(s, 2, Len(s))) ELSE s

RECURSIVE RStrip(_)
RStrip(s) ==
    IF Len(s) > 0 /\ IsSpace(Char(s, Len(s))) THEN RStrip(SubSeq(s, 1, Len(s) - 1)) ELSE s

\* str.strip()
Strip(s) == RStrip(LStrip(s))

\* length of the longest prefix of s without a character of seps
RECURSIVE WordLen(_, _)
WordLen(s, seps) ==
    IF Len(s) = 0 \/ Char(s, 1) \in seps THEN 0
    ELSE 1 + WordLen(SubSeq(s, 2, Len(s)), seps)

\* str.split(): the whitespace-delimited tokens of s
RECURSIVE Split(_)
Split(s) ==
    LET t == LStrip(s)
        n == WordLen(t, {" ", "\t"})
    IN  IF Len(t) = 0 THEN <<>>
        ELSE <<SubSeq(t, 1, n)>> \o Split(SubSeq(t, n + 1, Len(t)))

\* str.split(sep) for a one-character separator
RECURSIVE SplitOn(_, _)
SplitOn(s, sep) ==
    LET n == WordLen(s, {sep})
    IN  IF n = Len(s) THEN <<s>>
        ELSE <<SubSeq(s, 1, n)>> \o SplitOn(SubSeq(s, n + 2, Len(s)), sep)

\* needle in hay
Contains(hay, needle) ==
    \E i \in 1..(Len(hay) - Len(needle) + 1) : SubSeq(hay, i, i + Len(needle) - 1) = needle

Digit(c) == CHOOSE d \in 0..9 : ToString(d) = c

\* int(s) for a string of decimal digits
RECURSIVE ToInt(_)
ToInt(s) ==
    IF Len(s) = 0 THEN 0
    ELSE 10 * ToInt(SubSeq(s, 1, Len(s) - 1)) + Digit(Char(s, Len(s)))

\* x in seq
InSeq(x, seq) == \E i \in 1..Len(seq) : seq[i] = x

(***************************************************************************)
(* IPAllocator                                                             *)
(***************************************************************************)
subnet_base == "10.0.3"
start_from == 11
LastSuffix == 254

\* f"{self.subnet_base}.{n}"
Address(n) == subnet_base \o "." \o ToString(n)

\* the document ensure_allocations_file writes
ensure_allocations_file ==
    [ subnet      |-> subnet_base \o ".0/24",
      next_ip     |-> start_from,
      allocations |-> <<>>,
      reserved    |-> 1..(start_from - 1) ]

\* data["allocations"].values()
Values(data) == { data.allocations[n] : n \in DOMAIN data.allocations }

\* the candidate search of allocate_ip: 0 stands for the ValueError
RECURSIVE ScanFrom(_, _)
ScanFrom(next_ip, data) ==
    IF next_ip \in data.reserved \/ next_ip \in Values(data)
    THEN IF next_ip + 1 > LastSuffix THEN 0 ELSE ScanFrom(next_ip + 1, data)
    ELSE next_ip

\* a candidate taken from the number of allocations instead of the scan
FindNextIp_count(data) == start_from + Cardinality(DOMAIN data.allocations)

\* the candidate allocate_ip assigns
FindNextIp(data) == ScanFrom(data.next_ip, data)

Put(f, k, v) == [x \in DOMAIN f \cup {k} |-> IF x = k THEN v ELSE f[x]]
Drop(f, k) == [x \in DOMAIN f \ {k} |-> f[x]]

\* allocate_ip without the lookup of an existing allocation
allocate_ip_noreuse(data, container_name) ==
    LET next_ip == FindNextIp(data)
    IN  [ data |-> [data EXCEPT !.allocations = Put(@, container_name, next_ip),
                                !.next_ip = next_ip + 1],
          ret  |-> Address(next_ip) ]

\* allocate_ip on the loaded document: the document it leaves and what it returns
allocate_ip(data, container_name) ==
    IF container_name \in DOMAIN data.allocations
    THEN [data |-> data, ret |-> Address(data.allocations[container_name])]
    ELSE LET next_ip == FindNextIp(data)
         IN  IF next_ip = 0
             THEN [data |-> data, ret |-> "ValueError"]
             ELSE [ data |-> [data EXCEPT !.allocations = Put(@, container_name, next_ip),
                                          !.next_ip = next_ip + 1],
                    ret  |-> Address(next_ip) ]

\* release_ip that hands the released suffix back as next_ip
release_ip_rewind(data, container_name) ==
    IF container_name \in DOMAIN data.allocations
    THEN [ data |-> [data EXCEPT !.allocations = Drop(@, container_name),
                                 !.next_ip = data.allocations[container_name]],
           ret  |-> TRUE ]
    ELSE [data |-> data, ret |-> FALSE]

\* release_ip on the loaded document
release_ip(data, container_name) ==
    IF container_name \in DOMAIN data.allocations
    THEN [data |-> [data EXCEPT !.allocations = Drop(@, container_name)], ret |-> TRUE]
    ELSE [data |-> data, ret |-> FALSE]

get_ip(data, container_name) ==
    IF container_name \in DOMAIN data.allocations
    THEN Address(data.allocations[container_name])
    ELSE "None"

\* the files as they are before a call
Pre == [registry |-> registry, etc_hosts |-> etc_hosts, shared_hosts |-> shared_hosts]

\* the run may still make a new allocation
InWindow(n) ==
    \/ n >= start_from /\ n < start_from + MaxFresh
    \/ n >= HighWater /\ n < HighWater + MaxFresh

AllocateIp(name) ==
    /\ name \in DOMAIN registry.allocations \/ InWindow(registry.next_ip)
    /\ LET r == allocate_ip(registry, name)
       IN  /\ registry' = r.data
           /\ last' = [op |-> "allocate_ip", name |-> name, ip |-> "None",
                       res |-> r.ret, pre |-> Pre]
    /\ UNCHANGED <<etc_hosts, shared_hosts, containers, live, forwards, iptables, saved_ips, pc, loc, lock>>

ReleaseIp(name) ==
    /\ LET r == release_ip(registry, name)
       IN  /\ registry' = r.data
           /\ last' = [op |-> "release_ip", name |-> name, ip |-> "None",
                       res |-> r.ret, pre |-> Pre]
    /\ UNCHANGED <<etc_hosts, shared_hosts, containers, live, forwards, iptables, saved_ips, pc, loc, lock>>

GetIp(name) ==
    /\ last' = [op |-> "get_ip", name |-> name, ip |-> "None",
                res |-> get_ip(registry, name), pre |-> Pre]
    /\ UNCHANGED <<registry, etc_hosts, shared_hosts, containers, live, forwards, iptables, saved_ips, pc, loc, lock>>

NoCall == [op |-> "none", name |-> "None", ip |-> "None", res |-> "None",
           pre |-> [registry |-> <<>>, etc_hosts |-> <<>>, shared_hosts |-> <<>>]]

\* The registry as created on first use, or after HighWater - start_from
\* rounds of allocate and release of one name.
InitAlloc ==
    /\ registry \in { ensure_allocations_file,
                      [ensure_allocations_file EXCEPT !.next_ip = HighWater] }
    /\ etc_hosts = <<"">>
    /\ shared_hosts = <<"">>
    /\ containers = {}
    /\ live = <<>>
    /\ forwards = <<>>
    /\ iptables = <<>>
    /\ saved_ips = <<>>
    /\ last = NoCall
    /\ pc = <<>>
    /\ loc = <<>>
    /\ lock = 0

NextAlloc ==
    \E name \in Names :
        \/ AllocateIp(name)
        \/ ReleaseIp(name)
        \/ GetIp(name)

SpecAlloc == InitAlloc /\ [][NextAlloc]_vars

(***************************************************************************)
(* HostsManager (sequential calls)                                         *)
(***************************************************************************)
marker_start == "# BEGIN LXC Compose managed section - DO NOT EDIT"
marker_end == "# END LXC Compose managed section"

\* Names and explicit addresses the hosts calls are made with ("" is ip=None).
HostNames == {"web", "db"}
IpArgs == {"", "10.0.3.5"}

\* what `sudo lxc-ls` can answer: a failure, or the names of the containers
LxcOutcomes ==
    {[ok |-> FALSE, names |-> {}]} \cup {[ok |-> TRUE, names |-> S] : S \in {{}, {"web"}}}

\* the loop of read_hosts over content.split('\n')
RECURSIVE ReadLoop(_, _, _, _)
ReadLoop(lines, in_managed, after_managed, acc) ==
    IF lines = <<>> THEN acc
    ELSE LET line == Head(lines) IN
         IF Strip(line) = marker_start
         THEN ReadLoop(Tail(lines), TRUE, after_managed, acc)
         ELSE IF Strip(line) = marker_end
         THEN ReadLoop(Tail(lines), FALSE, TRUE, acc)
         ELSE IF ~in_managed /\ ~after_managed
         THEN ReadLoop(Tail(lines), in_managed, after_managed,
                       [acc EXCEPT !.before = Append(@, line)])
         ELSE IF in_managed
         THEN ReadLoop(Tail(lines), in_managed, after_managed,
                       [acc EXCEPT !.managed = Append(@, line)])
         ELSE ReadLoop(Tail(lines), in_managed, after_managed,
                       [acc EXCEPT !.after = Append(@, line)])

read_hosts(content) ==
    ReadLoop(content, FALSE, FALSE, [before |-> <<>>, managed |-> <<>>, after |-> <<>>])

\* while content and content[-1].strip() == '': content.pop()
RECURSIVE PopBlank(_)
PopBlank(content) ==
    IF content # <<>> /\ Strip(content[Len(content)]) = ""
    THEN PopBlank(SubSeq(content, 1, Len(content) - 1))
    ELSE content

\* any(line.strip() for line in lines)
AnyText(lines) == \E i \in 1..Len(lines) : Strip(lines[i]) # ""

\* content.split('\n') of '\n'.join(content)
Joined(content) == IF content = <<>> THEN <<"">> ELSE content

\* the content write_hosts writes
write_hosts(before, managed, after) ==
    LET c1 == PopBlank(before)
        c2 == IF managed # <<>>
              THEN c1 \o <<"", marker_start>> \o managed \o <<marker_end>>
              ELSE c1
        c3 == IF after # <<>> /\ AnyText(after) THEN c2 \o <<"">> \o after ELSE c2
        c4 == IF c3 # <<>> /\ c3[Len(c3)] # "" THEN Append(c3, "") ELSE c3
    IN  Joined(c4)

\* [line for line in managed if not (line.strip() and container_name in line.split())]
RECURSIVE DropName(_, _)
DropName(managed, container_name) ==
    IF managed = <<>> THEN <<>>
    ELSE (IF Strip(Head(managed)) # "" /\ InSeq(container_name, Split(Head(managed)))
          THEN <<>> ELSE <<Head(managed)>>)
         \o DropName(Tail(managed), container_name)

\* the sort key of a managed line
SortKey(x) ==
    IF Strip(x) # ""
    THEN LET octets == SplitOn(Split(x)[1], ".")
         IN  [i \in 1..Len(octets) |-> ToInt(octets[i])]
    ELSE <<999, 999, 999, 999>>

\* a < b for Python lists of ints
RECURSIVE ListLess(_, _)
ListLess(a, b) ==
    IF b = <<>> THEN FALSE
    ELSE IF a = <<>> THEN TRUE
    ELSE IF Head(a) # Head(b) THEN Head(a) < Head(b)
    ELSE ListLess(Tail(a), Tail(b))

RECURSIVE InsertSorted(_, _)
InsertSorted(sorted, x) ==
    IF sorted = <<>> THEN <<x>>
    ELSE IF ListLess(SortKey(x), SortKey(Head(sorted))) THEN <<x>> \o sorted
    ELSE <<Head(sorted)>> \o InsertSorted(Tail(sorted), x)

\* managed.sort(key=...): stable, ascending
RECURSIVE SortManaged(_)
SortManaged(managed) ==
    IF managed = <<>> THEN <<>>
    ELSE InsertSorted(SortManaged(SubSeq(managed, 1, Len(managed) - 1)),
                      managed[Len(managed)])

\* f"{ip}\t{container_name}"
Entry(ip, container_name) == ip \o "\t" \o container_name

\* list_entries: the (ip, container) pairs of the managed lines
RECURSIVE EntriesOf(_)
EntriesOf(managed) ==
    IF managed = <<>> THEN <<>>
    ELSE LET line == Head(managed)
             parts == Split(line)
         IN  (IF Strip(line) # "" /\ Char(line, 1) # "#" /\ Len(parts) >= 2
              THEN <<[ip |-> parts[1], container |-> parts[2]]>> ELSE <<>>)
             \o EntriesOf(Tail(managed))

list_entries(content) == EntriesOf(read_hosts(content).managed)

\* lxc is the outcome of `sudo lxc-ls`: its return code and the names it printed
check_name_conflict(content, container_name, lxc) ==
    LET entries == list_entries(content)
    IN  \/ \E i \in 1..Len(entries) : entries[i].container = container_name
        \/ lxc.ok /\ container_name \in lxc.names

\* the rewrite shared by add_container and update_container
PutEntry(content, container_name, ip) ==
    LET r == read_hosts(content)
        managed == SortManaged(Append(DropName(r.managed, container_name),
                                      Entry(ip, container_name)))
    IN  write_hosts(r.before, managed, r.after)

\* add_container with the allocation made before the conflict check
add_container_alloc_first(content, data, container_name, ip, lxc) ==
    LET a == IF ip = "" THEN allocate_ip(data, container_name)
             ELSE [data |-> data, ret |-> ip]
    IN  IF check_name_conflict(content, container_name, lxc)
        THEN [content |-> content, data |-> a.data, ret |-> "ClickException"]
        ELSE IF a.ret = "ValueError"
        THEN [content |-> content, data |-> a.data, ret |-> "ValueError"]
        ELSE [content |-> PutEntry(content, container_name, a.ret),
              data |-> a.data, ret |-> a.ret]

\* add_container: the hosts file and the registry it leaves, and what it returns
add_container(content, data, container_name, ip, lxc) ==
    IF check_name_conflict(content, container_name, lxc)
    THEN [content |-> content, data |-> data, ret |-> "ClickException"]
    ELSE LET a == IF ip = "" THEN allocate_ip(data, container_name)
                  ELSE [data |-> data, ret |-> ip]
         IN  IF a.ret = "ValueError"
             THEN [content |-> content, data |-> a.data, ret |-> "ValueError"]
             ELSE [content |-> PutEntry(content, container_name, a.ret),
                   data |-> a.data, ret |-> a.ret]

remove_container(content, data, container_name) ==
    LET r == read_hosts(content)
        managed == DropName(r.managed, container_name)
    IN  IF Len(managed) < Len(r.managed)
        THEN [content |-> write_hosts(r.before, managed, r.after),
              data |-> release_ip(data, container_name).data, ret |-> TRUE]
        ELSE [content |-> content, data |-> data, ret |-> FALSE]

update_container(content, data, container_name, new_ip) ==
    LET ip == IF new_ip # "" THEN new_ip
              ELSE IF get_ip(data, container_name) # "None" THEN get_ip(data, container_name)
              ELSE ""
    IN  IF ip # ""
        THEN [content |-> PutEntry(content, container_name, ip), data |-> data, ret |-> TRUE]
        ELSE [content |-> content, data |-> data, ret |-> FALSE]

get_container_ip(content, container_name) ==
    LET entries == list_entries(content)
        hits == {i \in 1..Len(entries) : entries[i].container = container_name}
    IN  IF hits = {} THEN "None"
        ELSE entries[CHOOSE i \in hits : \A j \in hits : i <= j].ip

\* the loop of cleanup_orphaned_entries over the entries listed at its start;
\* keep tells whether the entry of a listed container stays
RECURSIVE OrphanLoop(_, _, _, _, _, _)
OrphanLoop(entries, content, data, existing_containers, removed, keep) ==
    IF entries = <<>> THEN [content |-> content, data |-> data, ret |-> removed]
    ELSE LET r == remove_container(content, data, Head(entries).container)
         IN  IF (Head(entries).container \notin existing_containers) = keep
             THEN OrphanLoop(Tail(entries), r.content, r.data, existing_containers,
                             IF r.ret THEN removed + 1 ELSE removed, keep)
             ELSE OrphanLoop(Tail(entries), content, data, existing_containers, removed, keep)

\* cleanup_orphaned_entries with the test of the listing inverted
cleanup_orphaned_entries_inverted(content, data, lxc) ==
    IF ~lxc.ok THEN [content |-> content, data |-> data, ret |-> 0]
    ELSE OrphanLoop(list_entries(content), content, data, lxc.names, 0, FALSE)

\* cleanup_orphaned_entries: the hosts file and the registry it leaves and the
\* number of entries it removed
cleanup_orphaned_entries(content, data, lxc) ==
    IF ~lxc.ok THEN [content |-> content, data |-> data, ret |-> 0]
    ELSE OrphanLoop(list_entries(content), content, data, lxc.names, 0, TRUE)

AddContainer(name, ip) ==
    /\ Len(etc_hosts) < MaxFileLines
    /\ \/ ip # ""
       \/ name \in DOMAIN registry.allocations
       \/ registry.next_ip < start_from + MaxHostFresh
    /\ \E lxc \in LxcOutcomes :
         LET r == add_container(etc_hosts, registry, name, ip, lxc)
         IN  /\ etc_hosts' = r.content
             /\ registry' = r.data
             /\ last' = [op |-> "add_container", name |-> name, ip |-> ip,
                         res |-> r.ret, lxc |-> lxc]
    /\ UNCHANGED <<shared_hosts, containers, live, forwards, iptables, saved_ips, pc, loc, lock>>

RemoveContainer(name) ==
    /\ Len(etc_hosts) < MaxFileLines
    /\ LET r == remove_container(etc_hosts, registry, name)
       IN  /\ etc_hosts' = r.content
           /\ registry' = r.data
           /\ last' = [op |-> "remove_container", name |-> name, ip |-> "None",
                       res |-> r.ret]
    /\ UNCHANGED <<shared_hosts, containers, live, forwards, iptables, saved_ips, pc, loc, lock>>

UpdateContainer(name, new_ip) ==
    /\ Len(etc_hosts) < MaxFileLines
    /\ LET r == update_container(etc_hosts, registry, name, new_ip)
       IN  /\ etc_hosts' = r.content
           /\ registry' = r.data
           /\ last' = [op |-> "update_container", name |-> name, ip |-> new_ip,
                       res |-> r.ret]
    /\ UNCHANGED <<shared_hosts, containers, live, forwards, iptables, saved_ips, pc, loc, lock>>

CleanupOrphanedEntries ==
    /\ Len(etc_hosts) < MaxFileLines
    /\ \E lxc \in LxcOutcomes :
         LET r == cleanup_orphaned_entries(etc_hosts, registry, lxc)
         IN  /\ etc_hosts' = r.content
             /\ registry' = r.data
             /\ last' = [op |-> "cleanup_orphaned_entries", name |-> "None", ip |-> "None",
                         res |-> r.ret, lxc |-> lxc]
    /\ UNCHANGED <<shared_hosts, containers, live, forwards, iptables, saved_ips, pc, loc, lock>>

\* /etc/hosts as the host has it before a call: without a managed section,
\* and with a managed section that another entry was appended after.
InitialHosts ==
    { <<"127.0.0.1\tlocalhost", "">>,
      <<"127.0.0.1\tlocalhost", "", marker_start, "10.0.3.20\tweb", marker_end,
        "192.168.1.5\tnas", "">> }

InitHosts ==
    /\ registry = ensure_allocations_file
    /\ etc_hosts \in InitialHosts
    /\ shared_hosts = <<"">>
    /\ containers = {}
    /\ live = <<>>
    /\ forwards = <<>>
    /\ iptables = <<>>
    /\ saved_ips = <<>>
    /\ last = NoCall
    /\ pc = <<>>
    /\ loc = <<>>
    /\ lock = 0

NextHosts ==
    \/ \E name \in HostNames :
        \/ \E ip \in IpArgs : AddContainer(name, ip)
        \/ RemoveContainer(name)
        \/ \E ip \in IpArgs : UpdateContainer(name, ip)
    \/ CleanupOrphanedEntries

SpecHosts == InitHosts /\ [][NextHosts]_vars

(***************************************************************************)
(* HostsManager: write_hosts followed by read_hosts                        *)
(***************************************************************************)
\* The parts write_hosts is called with.  Every triple is one that read_hosts
\* returns for some file or that a caller builds from such a triple.
Befores ==
    { <<>>,
      <<"127.0.0.1\tlocalhost">>,
      <<"127.0.0.1\tlocalhost", "">>,
      <<"127.0.0.1\tlocalhost", "", "">> }
Manageds ==
    { <<>>,
      <<"10.0.3.11\tweb">>,
      <<"10.0.3.11\tweb", "10.0.3.12\tdb">> }
Afters ==
    { <<>>,
      <<"">>,
      <<"", "">>,
      <<"192.168.1.5\tnas", "">> }

WriteHosts ==
    /\ pc = "call"
    /\ etc_hosts' = write_hosts(loc.before, loc.managed, loc.after)
    /\ pc' = "written"
    /\ last' = [op |-> "write_hosts", name |-> "None", ip |-> "None", res |-> "None"]
    /\ UNCHANGED <<registry, shared_hosts, containers, live, forwards, iptables, saved_ips,
                   loc, lock>>

ReadHosts ==
    /\ pc = "written"
    /\ pc' = "read"
    /\ last' = [op |-> "read_hosts", name |-> "None", ip |-> "None",
                res |-> read_hosts(etc_hosts)]
    /\ UNCHANGED <<registry, etc_hosts, shared_hosts, containers, live, forwards, iptables,
                   saved_ips, loc, lock>>

InitRound ==
    /\ registry = ensure_allocations_file
    /\ etc_hosts = <<"">>
    /\ shared_hosts = <<"">>
    /\ containers = {}
    /\ live = <<>>
    /\ forwards = <<>>
    /\ iptables = <<>>
    /\ saved_ips = <<>>
    /\ last = NoCall
    /\ pc = "call"
    /\ loc \in [before : Befores, managed : Manageds, after : Afters]
    /\ lock = 0

NextRound == WriteHosts \/ ReadHosts

SpecRound == InitRound /\ [][NextRound]_vars

(***************************************************************************)
(* cli/lxc_compose.py: the shared hosts file and the host machine's        *)
(* /etc/hosts (sequential calls)                                           *)
(***************************************************************************)
machine_marker_start == "# BEGIN lxc-compose managed section"
machine_marker_end == "# END lxc-compose managed section"

\* Addresses the runtime gives a container.
LiveIps == {"10.0.3.11", "10.0.3.12"}

\* the file init_hosts_file writes
init_hosts_file ==
    << "# LXC Compose managed hosts file",
       "127.0.0.1\tlocalhost",
       "::1\tlocalhost ip6-localhost ip6-loopback",
       "",
       "# Container entries",
       "" >>

EndsWith(s, suffix) ==
    Len(suffix) <= Len(s) /\ SubSeq(s, Len(s) - Len(suffix) + 1, Len(s)) = suffix

\* needle in text, for a needle without newline
InText(content, needle) == \E i \in 1..Len(content) : Contains(content[i], needle)

\* (needle + "\n") in text
InTextAtLineEnd(content, needle) ==
    \E i \in 1..(Len(content) - 1) : EndsWith(content[i], needle)

\* the lines readlines() yields that end with a newline, and the rest
Body(content) == SubSeq(content, 1, Len(content) - 1)
Rest(content) == content[Len(content)]

\* text + extra + "\n", for extra without newline
AppendLine(content, extra) == Body(content) \o <<Rest(content) \o extra, "">>

\* [line for line in lines if name not in line.split()]
RECURSIVE DropToken(_, _)
DropToken(lines, name) ==
    IF lines = <<>> THEN <<>>
    ELSE (IF InSeq(name, Split(Head(lines))) THEN <<>> ELSE <<Head(lines)>>)
         \o DropToken(Tail(lines), name)

\* update_hosts_file: the content it leaves in the shared hosts file; direct
\* tells whether the process may write the file itself
update_hosts_file(content, action, name, ip, direct) ==
    IF action = "add" /\ ip # ""
    THEN IF InText(content, ip \o "\t" \o name) \/ InTextAtLineEnd(content, " " \o name)
         THEN content
         ELSE AppendLine(content, ip \o "\t" \o name)
    ELSE IF action = "remove"
    THEN LET kept == DropToken(Body(content), name)
             rest == IF Rest(content) # "" /\ ~InSeq(name, Split(Rest(content)))
                     THEN Rest(content) ELSE ""
         IN  IF direct THEN kept \o <<rest>>
             ELSE Append(kept \o <<rest>>, "")
    ELSE content

\* the loop of update_host_machine_hosts("add") over content.split('\n')
RECURSIVE MachineAddLoop(_, _, _, _, _, _)
MachineAddLoop(lines, in_section, entry_exists, new_lines, name, ip) ==
    IF lines = <<>> THEN new_lines
    ELSE LET line == Head(lines) IN
         IF line = machine_marker_start
         THEN MachineAddLoop(Tail(lines), TRUE, entry_exists, Append(new_lines, line), name, ip)
         ELSE IF line = machine_marker_end
         THEN MachineAddLoop(Tail(lines), FALSE, entry_exists,
                             (IF ~entry_exists THEN Append(new_lines, ip \o "\t" \o name)
                              ELSE new_lines) \o <<line>>, name, ip)
         ELSE IF in_section
         THEN IF InSeq(name, Split(line))
              THEN MachineAddLoop(Tail(lines), in_section, TRUE,
                                  Append(new_lines, ip \o "\t" \o name), name, ip)
              ELSE MachineAddLoop(Tail(lines), in_section, entry_exists,
                                  Append(new_lines, line), name, ip)
         ELSE MachineAddLoop(Tail(lines), in_section, entry_exists,
                             Append(new_lines, line), name, ip)

\* the loop of update_host_machine_hosts("remove") over readlines()
RECURSIVE MachineRemoveLoop(_, _, _, _)
MachineRemoveLoop(lines, in_section, new_lines, name) ==
    IF lines = <<>> THEN new_lines
    ELSE LET line == Head(lines) IN
         IF Contains(line, machine_marker_start)
         THEN MachineRemoveLoop(Tail(lines), TRUE, Append(new_lines, line), name)
         ELSE IF Contains(line, machine_marker_end)
         THEN MachineRemoveLoop(Tail(lines), FALSE, Append(new_lines, line), name)
         ELSE IF in_section /\ InSeq(name, Split(line))
         THEN MachineRemoveLoop(Tail(lines), in_section, new_lines, name)
         ELSE MachineRemoveLoop(Tail(lines), in_section, Append(new_lines, line), name)

\* update_host_machine_hosts: the content it leaves in /etc/hosts
update_host_machine_hosts(content, action, name, ip) ==
    IF action = "add" /\ ip # ""
    THEN IF ~InText(content, machine_marker_start)
         THEN \* echo "\n<start>\n<entry>\n<end>\n" >> /etc/hosts
              content \o <<machine_marker_start, ip \o "\t" \o name, machine_marker_end, "", "">>
         ELSE \* cat > /etc/hosts << "EOF" \n new_content \n EOF
              Append(MachineAddLoop(content, FALSE, FALSE, <<>>, name, ip), "")
    ELSE IF action = "remove"
    THEN \* cat > /etc/hosts << "EOF" \n new_content EOF
         \* (a last line without newline runs into the EOF delimiter)
         LET kept == MachineRemoveLoop(Body(content), FALSE, <<>>, name)
             all == MachineRemoveLoop(content, FALSE, <<>>, name)
         IN  IF Rest(content) = "" \/ Len(all) = Len(kept) THEN Append(kept, "")
             ELSE kept \o <<Rest(content) \o "EOF", "">>
    ELSE content

UpdateHostsFile(action, name, ip) ==
    /\ Len(shared_hosts) < MaxFileLines
    /\ \E direct \in BOOLEAN :
          /\ shared_hosts' = update_hosts_file(shared_hosts, action, name, ip, direct)
          /\ last' = [op |-> "update_hosts_file", action |-> action, name |-> name,
                      ip |-> ip, direct |-> direct]
    /\ UNCHANGED <<registry, etc_hosts, containers, live, forwards, iptables, saved_ips, pc, loc, lock>>

UpdateHostMachineHosts(action, name, ip) ==
    /\ Len(etc_hosts) < MaxFileLines
    /\ etc_hosts' = update_host_machine_hosts(etc_hosts, action, name, ip)
    /\ last' = [op |-> "update_host_machine_hosts", action |-> action, name |-> name,
                ip |-> ip]
    /\ UNCHANGED <<registry, shared_hosts, containers, live, forwards, iptables, saved_ips, pc, loc, lock>>

InitCli ==
    /\ registry = ensure_allocations_file
    /\ etc_hosts = <<"127.0.0.1\tlocalhost", "">>
    /\ shared_hosts = init_hosts_file
    /\ containers = {}
    /\ live = <<>>
    /\ forwards = <<>>
    /\ iptables = <<>>
    /\ saved_ips = <<>>
    /\ last = NoCall
    /\ pc = <<>>
    /\ loc = <<>>
    /\ lock = 0

NextCli ==
    \E name \in HostNames :
        \/ \E ip \in LiveIps : UpdateHostsFile("add", name, ip)
        \/ UpdateHostsFile("remove", name, "")
        \/ \E ip \in LiveIps : UpdateHostMachineHosts("add", name, ip)
        \/ UpdateHostMachineHosts("remove", name, "")

SpecCli == InitCli /\ [][NextCli]_vars

(***************************************************************************)
(* cli/lxc_compose.py: network setup and cleanup of a container            *)
(* (sequential calls).  Here iptables is the FORWARD chain, the rules in   *)
(* chain order, and saved_ips maps a container name to its saved record.   *)
(***************************************************************************)
NetNames == {"web", "db"}
\* the address the runtime reports for a container ("" when it reports none)
NetIps == [web |-> {"", "10.0.3.11", "10.0.3.12"}, db |-> {"10.0.3.110"}]
\* the exposed_ports lists of the configurations
PortLists == {<<>>, <<80>>}
\* the step of setup_container_networking whose command fails
SetupFailures ==
    {"none", "save", "hosts", "machine_hosts", "mount_hosts", "mount_env", "environment"}

\* save_container_ip: the saved records it leaves
save_container_ip(data, name, ip, ports) == Put(data, name, [ip |-> ip, ports |-> ports])

\* get_saved_container_ip, "" for None
get_saved_container_ip(data, name) == IF name \in DOMAIN data THEN data[name].ip ELSE ""

\* remove_saved_container_ip
remove_saved_container_ip(data, name) == IF name \in DOMAIN data THEN Drop(data, name) ELSE data

anywhere == "0.0.0.0/0"

\* -A FORWARD -d ip -m state --state ESTABLISHED,RELATED -j ACCEPT
EstablishedRule(ip) ==
    [ target |-> "ACCEPT", proto |-> "all", src |-> anywhere, dst |-> ip, dport |-> 0,
      state |-> "RELATED,ESTABLISHED" ]

\* -A FORWARD -d ip -p tcp --dport port -j ACCEPT
PortRule(ip, port) ==
    [ target |-> "ACCEPT", proto |-> "tcp", src |-> anywhere, dst |-> ip, dport |-> port,
      state |-> "" ]

\* -A FORWARD -s ip -j ACCEPT
OutboundRule(ip) ==
    [ target |-> "ACCEPT", proto |-> "all", src |-> ip, dst |-> anywhere, dport |-> 0,
      state |-> "" ]

\* -A FORWARD -d ip -j DROP
DropRule(ip) ==
    [ target |-> "DROP", proto |-> "all", src |-> anywhere, dst |-> ip, dport |-> 0,
      state |-> "" ]

\* the line `iptables -L FORWARD --line-numbers -n` prints for rule number num
RuleLine(num, rule) ==
    ToString(num) \o " " \o rule.target \o " " \o rule.proto \o " -- "
        \o rule.src \o " " \o rule.dst
        \o (IF rule.dport # 0 THEN " tcp dpt:" \o ToString(rule.dport) ELSE "")
        \o (IF rule.state # "" THEN " state " \o rule.state ELSE "")

\* the rule numbers of the lines with `ip in line`
rules_to_remove(chain, ip) == {i \in 1..Len(chain) : Contains(RuleLine(i, chain[i]), ip)}

\* the chain after `-D FORWARD n` for every n of nums, highest first
RECURSIVE DeleteNumbers(_, _, _)
DeleteNumbers(chain, nums, n) ==
    IF n = 0 THEN chain
    ELSE IF n \in nums /\ n <= Len(chain)
    THEN DeleteNumbers(SubSeq(chain, 1, n - 1) \o SubSeq(chain, n + 1, Len(chain)), nums, n - 1)
    ELSE DeleteNumbers(chain, nums, n - 1)

\* the chain after `-D FORWARD n` for every n of nums, lowest first
RECURSIVE DeleteAscending(_, _, _, _)
DeleteAscending(chain, nums, n, max) ==
    IF n > max THEN chain
    ELSE IF n \in nums /\ n <= Len(chain)
    THEN DeleteAscending(SubSeq(chain, 1, n - 1) \o SubSeq(chain, n + 1, Len(chain)),
                         nums, n + 1, max)
    ELSE DeleteAscending(chain, nums, n + 1, max)

\* manage_exposed_ports that deletes the selected rule numbers lowest first
manage_exposed_ports_ascending(chain, action, ip, ports, list_ok) ==
    IF action = "add" /\ ports # <<>>
    THEN chain \o <<EstablishedRule(ip)>>
               \o [i \in 1..Len(ports) |-> PortRule(ip, ports[i])]
               \o <<OutboundRule(ip), DropRule(ip)>>
    ELSE IF action = "remove" /\ list_ok
    THEN DeleteAscending(chain, rules_to_remove(chain, ip), 1, Len(chain))
    ELSE chain

\* manage_exposed_ports: the chain it leaves; list_ok is whether the listing
\* command of the removal succeeds
manage_exposed_ports(chain, action, ip, ports, list_ok) ==
    IF action = "add" /\ ports # <<>>
    THEN chain \o <<EstablishedRule(ip)>>
               \o [i \in 1..Len(ports) |-> PortRule(ip, ports[i])]
               \o <<OutboundRule(ip), DropRule(ip)>>
    ELSE IF action = "remove" /\ list_ok
    THEN DeleteNumbers(chain, rules_to_remove(chain, ip), Len(chain))
    ELSE chain

\* cleanup_container_networking on the files and the chain s; live_ip is the
\* address the runtime reports
cleanup_container_networking(s, name, live_ip, direct, list_ok) ==
    LET saved == get_saved_container_ip(s.saved, name)
        ip == IF saved # "" THEN saved ELSE live_ip
    IN  [ saved  |-> remove_saved_container_ip(s.saved, name),
          shared |-> update_hosts_file(s.shared, "remove", name, "", direct),
          etc    |-> update_host_machine_hosts(s.etc, "remove", name, ""),
          chain  |-> IF ip # "" THEN manage_exposed_ports(s.chain, "remove", ip, <<>>, list_ok)
                     ELSE s.chain ]

\* what the handler of setup_container_networking catches: the exceptions of
\* class Exception.  run_command answers a failed command with sys.exit(1),
\* and SystemExit is not one of them.
Caught(fail) == fail \in {"save", "hosts", "machine_hosts"}

\* setup_container_networking: the files and the chain it leaves and how it ends
setup_container_networking(s, name, exposed_ports, ip, fail, direct, list_ok) ==
    LET s1 == [s  EXCEPT !.saved = save_container_ip(@, name, ip, exposed_ports)]
        s2 == [s1 EXCEPT !.shared = update_hosts_file(@, "add", name, ip, direct)]
        s3 == [s2 EXCEPT !.etc = update_host_machine_hosts(@, "add", name, ip)]
        s4 == [s3 EXCEPT !.chain = manage_exposed_ports(@, "add", ip, exposed_ports, TRUE)]
        reached == IF fail = "save" THEN s
                   ELSE IF fail = "hosts" THEN s1
                   ELSE IF fail = "machine_hosts" THEN s2
                   ELSE s3
    IN  IF ip = "" THEN [s |-> s, res |-> "warning"]
        ELSE IF fail = "none" THEN [s |-> s4, res |-> "ok"]
        ELSE IF Caught(fail)
        THEN [ s |-> cleanup_container_networking(reached, name, ip, direct, list_ok),
               res |-> "raised" ]
        ELSE [s |-> reached, res |-> "exit"]

\* the files and the chain
NetState == [saved |-> saved_ips, shared |-> shared_hosts, etc |-> etc_hosts, chain |-> iptables]

\* The process may write the shared hosts file itself, and the commands of
\* the rollback succeed.
SetupContainerNetworking(name, exposed_ports) ==
    /\ Len(shared_hosts) < MaxFileLines
    /\ Len(etc_hosts) < MaxFileLines
    /\ \E ip \in NetIps[name], fail \in SetupFailures :
         LET r == setup_container_networking(NetState, name, exposed_ports, ip, fail,
                                             TRUE, TRUE)
         IN  /\ Len(r.s.chain) <= MaxChain
             /\ saved_ips' = r.s.saved
             /\ shared_hosts' = r.s.shared
             /\ etc_hosts' = r.s.etc
             /\ iptables' = r.s.chain
             /\ last' = [op |-> "setup_container_networking", name |-> name, ip |-> ip,
                         fail |-> fail, res |-> r.res]
    /\ UNCHANGED <<registry, containers, live, forwards, pc, loc, lock>>

CleanupContainerNetworking(name) ==
    /\ Len(shared_hosts) < MaxFileLines
    /\ Len(etc_hosts) < MaxFileLines
    /\ \E ip \in NetIps[name], list_ok \in BOOLEAN :
         LET r == cleanup_container_networking(NetState, name, ip, TRUE, list_ok)
         IN  /\ saved_ips' = r.saved
             /\ shared_hosts' = r.shared
             /\ etc_hosts' = r.etc
             /\ iptables' = r.chain
             /\ last' = [op |-> "cleanup_container_networking", name |-> name, ip |-> ip,
                         fail |-> "none", res |-> "ok"]
    /\ UNCHANGED <<registry, containers, live, forwards, pc, loc, lock>>

InitNet ==
    /\ registry = ensure_allocations_file
    /\ etc_hosts = <<"127.0.0.1\tlocalhost", "">>
    /\ shared_hosts = init_hosts_file
    /\ containers = {}
    /\ live = <<>>
    /\ forwards = <<>>
    /\ iptables = <<>>
    /\ saved_ips = <<>>
    /\ last = NoCall
    /\ pc = <<>>
    /\ loc = <<>>
    /\ lock = 0

NextNet ==
    \E name \in NetNames :
        \/ \E exposed_ports \in PortLists : SetupContainerNetworking(name, exposed_ports)
        \/ CleanupContainerNetworking(name)

SpecNet == InitNet /\ [][NextNet]_vars

(***************************************************************************)
(* cli/lxc_compose.py: the exposed-port policy on the FORWARD chain        *)
(***************************************************************************)
\* addresses of containers, one a textual prefix of the other
ExposedIps == {"10.0.3.11", "10.0.3.110"}
\* exposed_ports lists of the configuration
ExposedLists == {<<>>, <<80>>, <<443>>, <<80, 443>>}

\* manage_exposed_ports(action, ip, ports) on the chain; list_ok is whether
\* `iptables -L FORWARD --line-numbers -n` succeeds
ManageExposedPorts(action, ip, ports) ==
    \E list_ok \in (IF action = "remove" THEN BOOLEAN ELSE {TRUE}) :
        /\ Len(manage_exposed_ports(iptables, action, ip, ports, list_ok)) <= MaxChain
        /\ iptables' = manage_exposed_ports(iptables, action, ip, ports, list_ok)
        /\ last' = [op |-> "manage_exposed_ports", action |-> action, ip |-> ip,
                    ports |-> ports, list_ok |-> list_ok, before |-> Len(iptables)]
        /\ UNCHANGED <<registry, etc_hosts, shared_hosts, containers, live, forwards,
                       saved_ips, pc, loc, lock>>

InitExposed == InitNet

NextExposed ==
    \E ip \in ExposedIps :
        \/ \E ports \in ExposedLists : ManageExposedPorts("add", ip, ports)
        \/ ManageExposedPorts("remove", ip, <<>>)

SpecExposed == InitExposed /\ [][NextExposed]_vars

(***************************************************************************)
(* HostsManager (concurrent invocations).  Two processes each run one      *)
(* add_container or remove_container on the same /etc/hosts; a step is one *)
(* open, flock, read or write of the code.                                 *)
(***************************************************************************)
Procs == {1, 2}

\* the calls a process may make
Calls(p) ==
    { [op |-> "add", name |-> (IF p = 1 THEN "web" ELSE "db"),
       ip |-> (IF p = 1 THEN "10.0.3.5" ELSE "10.0.3.6")],
      [op |-> "remove", name |-> "old", ip |-> ""] }

\* check_name_conflict -> list_entries -> read_hosts: open(hosts_file, 'r'), flock
ConflictLock(p) ==
    /\ pc[p] = "start" /\ loc[p].op = "add"
    /\ lock = 0
    /\ lock' = p
    /\ pc' = [pc EXCEPT ![p] = "c_locked"]
    /\ UNCHANGED <<registry, etc_hosts, shared_hosts, containers, live, forwards, iptables, saved_ips, last, loc>>

\* f.read(), unlock; the entries are compared, then lxc-ls is asked
ConflictRead(p) ==
    /\ pc[p] = "c_locked"
    /\ lock' = 0
    /\ loc' = [loc EXCEPT ![p].seen = Append(@, etc_hosts)]
    /\ pc' = [pc EXCEPT ![p] =
                 IF check_name_conflict(etc_hosts, loc[p].name,
                                        [ok |-> TRUE, names |-> containers])
                 THEN "failed" ELSE "checked"]
    /\ UNCHANGED <<registry, etc_hosts, shared_hosts, containers, live, forwards, iptables, saved_ips, last>>

\* read_hosts: open(hosts_file, 'r'), flock(LOCK_EX)
ReadLock(p) ==
    /\ \/ pc[p] = "checked"
       \/ pc[p] = "start" /\ loc[p].op = "remove"
    /\ lock = 0
    /\ lock' = p
    /\ pc' = [pc EXCEPT ![p] = "r_locked"]
    /\ UNCHANGED <<registry, etc_hosts, shared_hosts, containers, live, forwards, iptables, saved_ips, last, loc>>

\* read_hosts: f.read(), flock(LOCK_UN); then the new content is built in memory
ReadUnlock(p) ==
    /\ pc[p] = "r_locked"
    /\ lock' = 0
    /\ LET r == read_hosts(etc_hosts)
           managed == DropName(r.managed, loc[p].name)
       IN  IF loc[p].op = "add"
           THEN /\ loc' = [loc EXCEPT ![p].seen = Append(@, etc_hosts),
                                      ![p].content_str =
                                          PutEntry(etc_hosts, loc[p].name, loc[p].ip)]
                /\ pc' = [pc EXCEPT ![p] = "have_read"]
           ELSE IF Len(managed) < Len(r.managed)
           THEN /\ loc' = [loc EXCEPT ![p].seen = Append(@, etc_hosts),
                                      ![p].content_str =
                                          write_hosts(r.before, managed, r.after)]
                /\ pc' = [pc EXCEPT ![p] = "have_read"]
           ELSE /\ loc' = [loc EXCEPT ![p].seen = Append(@, etc_hosts)]
                /\ pc' = [pc EXCEPT ![p] = "done"]
    /\ UNCHANGED <<registry, etc_hosts, shared_hosts, containers, live, forwards, iptables, saved_ips, last>>

\* write_hosts: open(hosts_file, 'w') truncates the file
WriteOpen(p) ==
    /\ pc[p] = "have_read"
    /\ etc_hosts' = <<"">>
    /\ pc' = [pc EXCEPT ![p] = "opened"]
    /\ UNCHANGED <<registry, shared_hosts, containers, live, forwards, iptables, saved_ips, last, loc, lock>>

\* write_hosts: flock(LOCK_EX)
WriteLock(p) ==
    /\ pc[p] = "opened"
    /\ lock = 0
    /\ lock' = p
    /\ pc' = [pc EXCEPT ![p] = "w_locked"]
    /\ UNCHANGED <<registry, etc_hosts, shared_hosts, containers, live, forwards, iptables, saved_ips, last, loc>>

\* write_hosts: f.write(content_str), flock(LOCK_UN)
WriteUnlock(p) ==
    /\ pc[p] = "w_locked"
    /\ etc_hosts' = loc[p].content_str
    /\ lock' = 0
    /\ pc' = [pc EXCEPT ![p] = IF loc[p].op = "remove" THEN "release" ELSE "done"]
    /\ UNCHANGED <<registry, shared_hosts, containers, live, forwards, iptables, saved_ips, last, loc>>

\* remove_container: self.ip_allocator.release_ip(container_name)
ReleaseAfterRemove(p) ==
    /\ pc[p] = "release"
    /\ registry' = release_ip(registry, loc[p].name).data
    /\ pc' = [pc EXCEPT ![p] = "done"]
    /\ UNCHANGED <<etc_hosts, shared_hosts, containers, live, forwards, iptables, saved_ips, last, loc, lock>>

InitConc ==
    /\ registry = [ensure_allocations_file EXCEPT !.next_ip = 21,
                                                  !.allocations = "old" :> 20]
    /\ etc_hosts = <<"127.0.0.1\tlocalhost", "", marker_start, "10.0.3.20\told",
                     marker_end, "">>
    /\ shared_hosts = <<"">>
    /\ containers = {"old"}
    /\ live = <<>>
    /\ forwards = <<>>
    /\ iptables = <<>>
    /\ saved_ips = <<>>
    /\ last = NoCall
    /\ pc = [p \in Procs |-> "start"]
    /\ loc \in [Procs -> [op : {"add", "remove"}, name : {"web", "db", "old"},
                          ip : {"", "10.0.3.5", "10.0.3.6"},
                          seen : {<<>>}, content_str : {<<>>}]]
    /\ \A p \in Procs : [op |-> loc[p].op, name |-> loc[p].name, ip |-> loc[p].ip] \in Calls(p)
    /\ lock = 0

NextConc ==
    \E p \in Procs :
        \/ ConflictLock(p)
        \/ ConflictRead(p)
        \/ ReadLock(p)
        \/ ReadUnlock(p)
        \/ WriteOpen(p)
        \/ WriteLock(p)
        \/ WriteUnlock(p)
        \/ ReleaseAfterRemove(p)

SpecConc == InitConc /\ [][NextConc]_vars

(***************************************************************************)
(* PortManager (sequential calls).  forwards is config["forwards"] of the  *)
(* registry file; iptables is the bag of installed rules: how many copies  *)
(* of each rule the chains hold.  `iptables -A` appends a rule (duplicates *)
(* are kept); `iptables -D` with a rule specification deletes one rule     *)
(* that has exactly the matches and the target of the specification, and   *)
(* fails when the chain has none.                                          *)
(***************************************************************************)
PortNames == {"web", "api"}
HostPorts == {8080}
Protocols == {"tcp", "udp"}
\* the add_forward calls that are made: host port, container, container port, protocol
AddCalls ==
    { <<8080, "web", 80, "tcp">>, <<8080, "web", 80, "udp">>, <<8080, "api", 80, "tcp">> }
\* addresses the runtime gives a running container ("" when it has none)
RuntimeIps ==
    [web |-> {"", "10.0.3.11", "10.0.3.12"}, api |-> {"", "10.0.3.13"}]
\* the iptables command of apply_iptables_rule(action="add") that fails
FailKinds == {"none", "dnat", "forward"}

\* get_host_interface
interface == "eth0"

\* PortManager.get_container_ip: the address of a running container, "" for None
pm_get_container_ip(state, container_name) == state[container_name]

\* the DNAT rule of a forward, with the comment match the command gives
DnatRule(forward, comment) ==
    [ table |-> "nat", chain |-> "PREROUTING", iface |-> interface,
      proto |-> forward.protocol, dst |-> "", dport |-> forward.host_port,
      state |-> "", target |-> "DNAT",
      to |-> <<forward.container_ip, forward.container_port>>, comment |-> comment ]

\* the FORWARD accept rule of a forward
AcceptRule(forward, comment) ==
    [ table |-> "filter", chain |-> "FORWARD", iface |-> "",
      proto |-> forward.protocol, dst |-> forward.container_ip,
      dport |-> forward.container_port,
      state |-> "NEW,ESTABLISHED,RELATED", target |-> "ACCEPT",
      to |-> <<>>, comment |-> comment ]

\* the rule apply_all_rules appends to nat POSTROUTING
MasqueradeRule ==
    [ table |-> "nat", chain |-> "POSTROUTING", iface |-> interface,
      proto |-> "", dst |-> "", dport |-> 0, state |-> "", target |-> "MASQUERADE",
      to |-> <<>>, comment |-> "" ]

\* f"lxc-compose: {forward['description']}"
Comment(forward) == "lxc-compose: " \o forward.description

\* iptables -A <chain> <rule specification>
AppendRule(rules, spec) == rules (+) SetToBag({spec})

\* iptables -D <chain> <rule specification>
DeleteRule(rules, spec) == rules (-) SetToBag({spec})

\* apply_iptables_rule: the rules it leaves installed and what it returns
apply_iptables_rule(rules, forward, action, fail) ==
    IF action = "add"
    THEN IF fail = "dnat" THEN [rules |-> rules, ret |-> FALSE]
         ELSE IF fail = "forward"
         THEN [rules |-> AppendRule(rules, DnatRule(forward, Comment(forward))), ret |-> FALSE]
         ELSE [ rules |-> AppendRule(AppendRule(rules, DnatRule(forward, Comment(forward))),
                                     AcceptRule(forward, Comment(forward))),
                ret |-> TRUE ]
    ELSE IF action = "remove"
    THEN [ rules |-> DeleteRule(DeleteRule(rules, DnatRule(forward, "")),
                                AcceptRule(forward, "")),
           ret |-> TRUE ]
    ELSE [rules |-> rules, ret |-> TRUE]

\* some rule of the configuration has this host port and protocol
Forwarded(config, host_port, protocol) ==
    \E i \in 1..Len(config) :
        config[i].host_port = host_port /\ config[i].protocol = protocol

\* add_forward without the check for a host port that is already forwarded
add_forward_nocheck(config, rules, state, host_port, container_name, container_port, protocol, description, fail) ==
    LET container_ip == pm_get_container_ip(state, container_name)
        forward_rule ==
            [ host_port |-> host_port, container_name |-> container_name,
              container_ip |-> container_ip, container_port |-> container_port,
              protocol |-> protocol,
              description |-> IF description # "" THEN description
                              ELSE container_name \o ":" \o ToString(container_port) ]
        a == apply_iptables_rule(rules, forward_rule, "add", fail)
    IN  IF container_ip = ""
        THEN [config |-> config, rules |-> rules, ret |-> FALSE, msg |-> "not running"]
        ELSE IF a.ret
        THEN [config |-> Append(config, forward_rule), rules |-> a.rules,
              ret |-> TRUE, msg |-> "added"]
        ELSE [config |-> config, rules |-> a.rules, ret |-> FALSE, msg |-> "iptables"]

\* add_forward: the configuration and the rules it leaves, and what it returns
add_forward(config, rules, state, host_port, container_name, container_port, protocol, description, fail) ==
    LET container_ip == pm_get_container_ip(state, container_name)
        forward_rule ==
            [ host_port |-> host_port, container_name |-> container_name,
              container_ip |-> container_ip, container_port |-> container_port,
              protocol |-> protocol,
              description |-> IF description # "" THEN description
                              ELSE container_name \o ":" \o ToString(container_port) ]
        a == apply_iptables_rule(rules, forward_rule, "add", fail)
    IN  IF container_ip = ""
        THEN [config |-> config, rules |-> rules, ret |-> FALSE, msg |-> "not running"]
        ELSE IF Forwarded(config, host_port, protocol)
        THEN [config |-> config, rules |-> rules, ret |-> FALSE,
              msg |-> "already forwarded"]
        ELSE IF a.ret
        THEN [config |-> Append(config, forward_rule), rules |-> a.rules,
              ret |-> TRUE, msg |-> "added"]
        ELSE [config |-> config, rules |-> a.rules, ret |-> FALSE, msg |-> "iptables"]

\* [f for f in config["forwards"] if not (host_port and protocol match)]
RECURSIVE DropForward(_, _, _)
DropForward(config, host_port, protocol) ==
    IF config = <<>> THEN <<>>
    ELSE (IF Head(config).host_port = host_port /\ Head(config).protocol = protocol
          THEN <<>> ELSE <<Head(config)>>)
         \o DropForward(Tail(config), host_port, protocol)

\* [f for f in config["forwards"] if not (host_port matches)]
RECURSIVE DropHostPort(_, _)
DropHostPort(config, host_port) ==
    IF config = <<>> THEN <<>>
    ELSE (IF Head(config).host_port = host_port THEN <<>> ELSE <<Head(config)>>)
         \o DropHostPort(Tail(config), host_port)

\* remove_forward that drops every rule of the host port, whatever its protocol
remove_forward_anyprotocol(config, rules, host_port, protocol) ==
    IF ~Forwarded(config, host_port, protocol)
    THEN [config |-> config, rules |-> rules, ret |-> FALSE]
    ELSE [config |-> DropHostPort(config, host_port), rules |-> rules, ret |-> TRUE]

\* remove_forward
remove_forward(config, rules, host_port, protocol) ==
    IF ~Forwarded(config, host_port, protocol)
    THEN [config |-> config, rules |-> rules, ret |-> FALSE]
    ELSE LET i == CHOOSE i \in 1..Len(config) :
                     /\ config[i].host_port = host_port
                     /\ config[i].protocol = protocol
                     /\ \A j \in 1..(i - 1) :
                            ~(config[j].host_port = host_port /\ config[j].protocol = protocol)
             a == apply_iptables_rule(rules, config[i], "remove", "none")
         IN  [ config |-> DropForward(config, host_port, protocol),
               rules |-> a.rules, ret |-> TRUE ]

\* the loop of list_forwards: every rule of a container with a live address gets it
RefreshIps(config, state) ==
    [ i \in 1..Len(config) |->
        LET current_ip == pm_get_container_ip(state, config[i].container_name)
        IN  IF current_ip # "" /\ current_ip # config[i].container_ip
            THEN [config[i] EXCEPT !.container_ip = current_ip]
            ELSE config[i] ]

\* list_forwards: the configuration it leaves on disk (it saves only when a
\* rule changed, and then the changed configuration) and the list it returns
list_forwards(config, state) ==
    [config |-> RefreshIps(config, state), ret |-> RefreshIps(config, state)]

\* the loop of apply_all_rules from rule i on; fails[i] is the failure of
\* the commands for rule i
RECURSIVE ApplyLoop(_, _, _, _, _, _)
ApplyLoop(config, rules, state, fails, i, success_count) ==
    IF i > Len(config)
    THEN [config |-> config, rules |-> rules, ret |-> (success_count = Len(config))]
    ELSE LET current_ip == pm_get_container_ip(state, config[i].container_name)
             forward == [config[i] EXCEPT !.container_ip = current_ip]
             a == apply_iptables_rule(rules, forward, "add", fails[i])
         IN  IF current_ip # ""
             THEN ApplyLoop([config EXCEPT ![i] = forward], a.rules, state, fails, i + 1,
                            IF a.ret THEN success_count + 1 ELSE success_count)
             ELSE ApplyLoop(config, rules, state, fails, i + 1, success_count)

\* apply_all_rules that reports success whatever the loop counted
apply_all_rules_always(config, rules, state, fails) ==
    [ApplyLoop(config, AppendRule(rules, MasqueradeRule), state, fails, 1, 0) EXCEPT !.ret = TRUE]

\* apply_all_rules
apply_all_rules(config, rules, state, fails) ==
    ApplyLoop(config, AppendRule(rules, MasqueradeRule), state, fails, 1, 0)

\* the loop of clear_all_rules
RECURSIVE ClearLoop(_, _)
ClearLoop(config, rules) ==
    IF config = <<>> THEN rules
    ELSE ClearLoop(Tail(config), apply_iptables_rule(rules, Head(config), "remove", "none").rules)

\* clear_all_rules
clear_all_rules(config, rules) ==
    [config |-> <<>>, rules |-> ClearLoop(config, rules), ret |-> TRUE]

\* the loop of update_container_ip from rule i on
RECURSIVE UpdateLoop(_, _, _, _, _, _, _)
UpdateLoop(config, rules, container_name, new_ip, fails, i, updated) ==
    IF i > Len(config) THEN [config |-> config, rules |-> rules, ret |-> updated]
    ELSE IF config[i].container_name = container_name /\ config[i].container_ip # new_ip
    THEN LET removed == apply_iptables_rule(rules, config[i], "remove", "none").rules
             forward == [config[i] EXCEPT !.container_ip = new_ip]
             added == apply_iptables_rule(removed, forward, "add", fails[i]).rules
         IN  UpdateLoop([config EXCEPT ![i] = forward], added, container_name, new_ip,
                        fails, i + 1, TRUE)
    ELSE UpdateLoop(config, rules, container_name, new_ip, fails, i + 1, updated)

\* update_container_ip: the configuration is saved only when a rule changed
update_container_ip(config, rules, state, container_name, fails) ==
    LET new_ip == pm_get_container_ip(state, container_name)
    IN  IF new_ip = "" THEN [config |-> config, rules |-> rules, ret |-> FALSE]
        ELSE UpdateLoop(config, rules, container_name, new_ip, fails, 1, FALSE)

AddForward(host_port, container_name, container_port, protocol) ==
    \E fail \in FailKinds :
        LET r == add_forward(forwards, iptables, live, host_port, container_name,
                             container_port, protocol, "", fail)
        IN  /\ Len(r.config) <= MaxForwards
            /\ BagCardinality(r.rules) <= MaxRules
            /\ forwards' = r.config
            /\ iptables' = r.rules
            /\ last' = [op |-> "add_forward", host_port |-> host_port,
                        name |-> container_name, container_port |-> container_port,
                        protocol |-> protocol, res |-> r.ret, msg |-> r.msg]
            /\ UNCHANGED <<registry, etc_hosts, shared_hosts, containers, live, saved_ips,
                           pc, loc, lock>>

RemoveForward(host_port, protocol) ==
    LET r == remove_forward(forwards, iptables, host_port, protocol)
    IN  /\ forwards' = r.config
        /\ iptables' = r.rules
        /\ last' = [op |-> "remove_forward", host_port |-> host_port, name |-> "None",
                    container_port |-> 0, protocol |-> protocol, res |-> r.ret,
                    msg |-> "None"]
        /\ UNCHANGED <<registry, etc_hosts, shared_hosts, containers, live, saved_ips,
                       pc, loc, lock>>

ListForwards ==
    LET r == list_forwards(forwards, live)
    IN  /\ forwards' = r.config
        /\ last' = [op |-> "list_forwards", host_port |-> 0, name |-> "None",
                    container_port |-> 0, protocol |-> "None", res |-> r.ret,
                    msg |-> "None"]
        /\ UNCHANGED <<registry, etc_hosts, shared_hosts, containers, live, iptables,
                       saved_ips, pc, loc, lock>>

ApplyAllRules ==
    \E fails \in [1..Len(forwards) -> FailKinds] :
        LET r == apply_all_rules(forwards, iptables, live, fails)
        IN  /\ BagCardinality(r.rules) <= MaxRules
            /\ forwards' = r.config
            /\ iptables' = r.rules
            /\ last' = [op |-> "apply_all_rules", host_port |-> 0, name |-> "None",
                        container_port |-> 0, protocol |-> "None", res |-> r.ret,
                        msg |-> "None"]
            /\ UNCHANGED <<registry, etc_hosts, shared_hosts, containers, live, saved_ips,
                           pc, loc, lock>>

ClearAllRules ==
    LET r == clear_all_rules(forwards, iptables)
    IN  /\ forwards' = r.config
        /\ iptables' = r.rules
        /\ last' = [op |-> "clear_all_rules", host_port |-> 0, name |-> "None",
                    container_port |-> 0, protocol |-> "None", res |-> r.ret,
                    msg |-> "None"]
        /\ UNCHANGED <<registry, etc_hosts, shared_hosts, containers, live, saved_ips,
                       pc, loc, lock>>

UpdateContainerIp(container_name) ==
    \E fails \in [1..Len(forwards) -> FailKinds] :
        LET r == update_container_ip(forwards, iptables, live, container_name, fails)
        IN  /\ BagCardinality(r.rules) <= MaxRules
            /\ forwards' = r.config
            /\ iptables' = r.rules
            /\ last' = [op |-> "update_container_ip", host_port |-> 0,
                        name |-> container_name, container_port |-> 0,
                        protocol |-> "None", res |-> r.ret, msg |-> "None"]
            /\ UNCHANGED <<registry, etc_hosts, shared_hosts, containers, live, saved_ips,
                           pc, loc, lock>>

\* The runtime starts or stops a container or gives it another address.
RuntimeChange(container_name, ip) ==
    /\ live[container_name] # ip
    /\ live' = [live EXCEPT ![container_name] = ip]
    /\ last' = [op |-> "runtime", host_port |-> 0, name |-> container_name,
                container_port |-> 0, protocol |-> "None", res |-> ip, msg |-> "None"]
    /\ UNCHANGED <<registry, etc_hosts, shared_hosts, containers, forwards, iptables,
                   saved_ips, pc, loc, lock>>

\* ensure_config_exists: {"forwards": []}; no rule installed, nothing running
InitPorts ==
    /\ registry = ensure_allocations_file
    /\ etc_hosts = <<"">>
    /\ shared_hosts = <<"">>
    /\ containers = {}
    /\ live = [n \in PortNames |-> ""]
    /\ forwards = <<>>
    /\ iptables = <<>>
    /\ saved_ips = <<>>
    /\ last = NoCall
    /\ pc = <<>>
    /\ loc = <<>>
    /\ lock = 0

NextPorts ==
    \/ \E call \in AddCalls : AddForward(call[1], call[2], call[3], call[4])
    \/ \E host_port \in HostPorts, protocol \in Protocols :
            RemoveForward(host_port, protocol)
    \/ ListForwards
    \/ ApplyAllRules
    \/ ClearAllRules
    \/ \E container_name \in PortNames : UpdateContainerIp(container_name)
    \/ \E container_name \in PortNames :
         \E ip \in RuntimeIps[container_name] : RuntimeChange(container_name, ip)

SpecPorts == InitPorts /\ [][NextPorts]_vars

(***************************************************************************)
(* srv/lxc-compose/cli/lxc_compose.py: the commands that begin with        *)
(* hosts_manager.sync_with_reality()                                       *)
(***************************************************************************)
\* hosts_manager.sync_with_reality(): class HostsManager defines no method of
\* this name (its reconciliation is cleanup_orphaned_entries), so the call
\* raises AttributeError and touches no file
sync_with_reality(content, data) ==
    [content |-> content, data |-> data, ret |-> "AttributeError"]

\* list: the bare `except:` swallows whatever the reconciliation raises; the
\* command then lists the containers and, unless only --running was asked
\* for, the port forwards
list_containers(content, data, config, state, running, ports) ==
    LET r == sync_with_reality(content, data)
    IN  [ content |-> r.content, data |-> r.data,
          config |-> IF ports \/ ~running THEN list_forwards(config, state).config
                     ELSE config,
          ret |-> "ok" ]

\* ps: the bare `except:` swallows whatever the reconciliation raises; the
\* command then prints the state of the configured containers
ps(content, data) ==
    LET r == sync_with_reality(content, data)
    IN  [content |-> r.content, data |-> r.data, ret |-> "ok"]

\* up, as far as its reconciliation step: only ImportError is handled there,
\* any other exception ends the command
up(content, data) ==
    LET r == sync_with_reality(content, data)
    IN  [ content |-> r.content, data |-> r.data,
          ret |-> IF r.ret \in {"ok", "ImportError"} THEN "ok" ELSE r.ret ]

\* down, as far as its reconciliation step: only ImportError is handled there
down(content, data) ==
    LET r == sync_with_reality(content, data)
    IN  [ content |-> r.content, data |-> r.data,
          ret |-> IF r.ret \in {"ok", "ImportError"} THEN "ok" ELSE r.ret ]

\* lxc is what `sudo lxc-ls` answers while the command runs.
ListContainers ==
    /\ \E lxc \in LxcOutcomes, running \in BOOLEAN, ports \in BOOLEAN :
         LET r == list_containers(etc_hosts, registry, forwards, live, running, ports)
         IN  /\ etc_hosts' = r.content
             /\ registry' = r.data
             /\ forwards' = r.config
             /\ last' = [op |-> "list", name |-> "None", ip |-> "None", res |-> r.ret,
                         lxc |-> lxc]
    /\ UNCHANGED <<shared_hosts, containers, live, iptables, saved_ips, pc, loc, lock>>

Ps ==
    /\ \E lxc \in LxcOutcomes :
         LET r == ps(etc_hosts, registry)
         IN  /\ etc_hosts' = r.content
             /\ registry' = r.data
             /\ last' = [op |-> "ps", name |-> "None", ip |-> "None", res |-> r.ret,
                         lxc |-> lxc]
    /\ UNCHANGED <<shared_hosts, containers, live, forwards, iptables, saved_ips, pc, loc, lock>>

Up ==
    /\ \E lxc \in LxcOutcomes :
         LET r == up(etc_hosts, registry)
         IN  /\ etc_hosts' = r.content
             /\ registry' = r.data
             /\ last' = [op |-> "up", name |-> "None", ip |-> "None", res |-> r.ret,
                         lxc |-> lxc]
    /\ UNCHANGED <<shared_hosts, containers, live, forwards, iptables, saved_ips, pc, loc, lock>>

Down ==
    /\ \E lxc \in LxcOutcomes :
         LET r == down(etc_hosts, registry)
         IN  /\ etc_hosts' = r.content
             /\ registry' = r.data
             /\ last' = [op |-> "down", name |-> "None", ip |-> "None", res |-> r.ret,
                         lxc |-> lxc]
    /\ UNCHANGED <<shared_hosts, containers, live, forwards, iptables, saved_ips, pc, loc, lock>>

InitCmd == InitHosts

\* The commands, between calls that add and remove hosts entries.
NextCmd ==
    \/ \E name \in HostNames :
        \/ \E ip \in IpArgs : AddContainer(name, ip)
        \/ RemoveContainer(name)
    \/ ListContainers
    \/ Ps
    \/ Up
    \/ Down

SpecCmd == InitCmd /\ [][NextCmd]_vars

(***************************************************************************)
(* HostsManager.check_name_conflict, on a host where cli/lxc_compose.py    *)
(* keeps the shared hosts file                                             *)
(***************************************************************************)
\* lxc is what `sudo lxc-ls` answers during the call.
CheckNameConflict(name) ==
    /\ \E lxc \in LxcOutcomes :
          last' = [op |-> "check_name_conflict", name |-> name,
                   res |-> check_name_conflict(etc_hosts, name, lxc), lxc |-> lxc]
    /\ UNCHANGED <<registry, etc_hosts, shared_hosts, containers, live, forwards, iptables, saved_ips, pc, loc, lock>>

InitConflict == InitCli

\* The check, between calls that add entries to the managed section of
\* /etc/hosts and calls that add and remove entries of the shared hosts file.
NextConflict ==
    \E name \in HostNames :
        \/ CheckNameConflict(name)
        \/ AddContainer(name, "10.0.3.5")
        \/ \E action \in {"add", "remove"} : UpdateHostsFile(action, name, "10.0.3.11")

SpecConflict == InitConflict /\ [][NextConflict]_vars

(***************************************************************************)
(* Two processes that change the allocation registry or the port-forward   *)
(* registry at the same time.  Neither file is locked: a call loads the    *)
(* document, changes its copy and writes the whole document back.          *)
(***************************************************************************)
\* The call each process makes.
RaceCalls(p) ==
    IF p = 1
    THEN { [op |-> "allocate_ip", name |-> "web", host_port |-> 0, container_port |-> 0,
            protocol |-> ""] }
         \cup { [op |-> "add_forward", name |-> "web", host_port |-> h, container_port |-> 80,
                 protocol |-> "tcp"] : h \in {8080, 8081} }
    ELSE { [op |-> "allocate_ip", name |-> n, host_port |-> 0, container_port |-> 0,
            protocol |-> ""] : n \in {"db", "api"} }
         \cup { [op |-> "add_forward", name |-> "api", host_port |-> h, container_port |-> 80,
                 protocol |-> pr] : h \in {8080, 8081}, pr \in {"tcp", "udp"} }

\* save_allocations that keeps the allocations another process wrote since
\* the document was loaded
save_allocations_merge(current, data) ==
    [data EXCEPT !.allocations =
        [n \in DOMAIN current.allocations \cup DOMAIN data.allocations |->
            IF n \in DOMAIN data.allocations THEN data.allocations[n]
            ELSE current.allocations[n]]]

\* save_allocations: allocations_file.write_text(json.dumps(data)); the file
\* becomes the caller's document, whatever it held
save_allocations(current, data) == data

\* save_config: config_file.write_text(json.dumps(config))
save_config(current, config) == config

\* allocate_ip: data = self.load_allocations()
LoadAllocations(p) ==
    /\ pc[p] = "start" /\ loc[p].op = "allocate_ip"
    /\ loc' = [loc EXCEPT ![p].data = registry]
    /\ pc' = [pc EXCEPT ![p] = "loaded"]
    /\ UNCHANGED <<registry, etc_hosts, shared_hosts, containers, live, forwards, iptables, saved_ips, last, lock>>

\* allocate_ip: the lookup and the search on the loaded document, then
\* save_allocations(data) unless the name was found or the subnet is full
SaveAllocations(p) ==
    /\ pc[p] = "loaded" /\ loc[p].op = "allocate_ip"
    /\ LET r == allocate_ip(loc[p].data, loc[p].name)
       IN  /\ registry' = IF r.data # loc[p].data THEN save_allocations(registry, r.data)
                          ELSE registry
           /\ loc' = [loc EXCEPT ![p].ret = r.ret]
    /\ pc' = [pc EXCEPT ![p] = "done"]
    /\ UNCHANGED <<etc_hosts, shared_hosts, containers, live, forwards, iptables, saved_ips, last, lock>>

\* add_forward: get_container_ip, config = self.load_config()
LoadConfig(p) ==
    /\ pc[p] = "start" /\ loc[p].op = "add_forward"
    /\ loc' = [loc EXCEPT ![p].data = forwards]
    /\ pc' = [pc EXCEPT ![p] = "loaded"]
    /\ UNCHANGED <<registry, etc_hosts, shared_hosts, containers, live, forwards, iptables, saved_ips, last, lock>>

\* add_forward: the check on the loaded config, apply_iptables_rule, and on
\* success config["forwards"].append(forward_rule); self.save_config(config)
SaveConfig(p) ==
    /\ pc[p] = "loaded" /\ loc[p].op = "add_forward"
    /\ LET r == add_forward(loc[p].data, iptables, live, loc[p].host_port, loc[p].name,
                            loc[p].container_port, loc[p].protocol, "", "none")
       IN  /\ iptables' = r.rules
           /\ forwards' = IF r.ret THEN save_config(forwards, r.config) ELSE forwards
           /\ loc' = [loc EXCEPT ![p].ret = r.ret]
    /\ pc' = [pc EXCEPT ![p] = "done"]
    /\ UNCHANGED <<registry, etc_hosts, shared_hosts, containers, live, saved_ips, last, lock>>

InitRace ==
    /\ registry = ensure_allocations_file
    /\ etc_hosts = <<"">>
    /\ shared_hosts = <<"">>
    /\ containers = {}
    /\ live = [web |-> "10.0.3.11", api |-> "10.0.3.13"]
    /\ forwards = <<>>
    /\ iptables = EmptyBag
    /\ saved_ips = <<>>
    /\ last = NoCall
    /\ pc = [p \in Procs |-> "start"]
    /\ \E c1 \in RaceCalls(1), c2 \in RaceCalls(2) :
          loc = [p \in Procs |->
                    LET c == IF p = 1 THEN c1 ELSE c2
                    IN  [ op |-> c.op, name |-> c.name, host_port |-> c.host_port,
                          container_port |-> c.container_port, protocol |-> c.protocol,
                          data |-> <<>>, ret |-> "None" ]]
    /\ lock = 0

NextRace ==
    \E p \in Procs :
        \/ LoadAllocations(p)
        \/ SaveAllocations(p)
        \/ LoadConfig(p)
        \/ SaveConfig(p)

SpecRace == InitRace /\ [][NextRace]_vars

(***************************************************************************)
(* srv/lxc-compose/cli/lxc_compose.py: up from its configuration to the    *)
(* declared port forwards, destroy, and port add.  The runtime is the set  *)
(* `containers` of containers that exist and `live`, the address of each   *)
(* running one.                                                            *)
(***************************************************************************)
\* the configurations up is run with: the containers in start order and the
\* port forwards they declare ("8080:80" under ports)
UpConfigs ==
    { [ order |-> <<"web">>,
        port_forwards |-> <<[host_port |-> 8080, container |-> "web", container_port |-> 80]>> ],
      [ order |-> <<"web", "api">>,
        port_forwards |-> << [host_port |-> 8080, container |-> "web", container_port |-> 80],
                            [host_port |-> 8080, container |-> "api", container_port |-> 80] >> ] }

\* the address a container has once the runtime has started it
StartIp == [web |-> "10.0.3.11", api |-> "10.0.3.13"]

\* up for a container that exists: lxc-start if it is not running (state is
\* the runtime after that), then add_container(name, container_ip), whose
\* outcome is h
UpExisting(s, state, h) ==
    IF h.ret = "ClickException"
    THEN [s EXCEPT !.state = state, !.ret = "ClickException"]
    ELSE [s EXCEPT !.state = state, !.content = h.content, !.data = h.data]

\* up for a container that does not exist: allocate_ip (outcome a),
\* lxc-create, lxc-start, add_container(name, ip_only) (outcome h)
UpCreate(s, name, a, h, create_ok) ==
    IF a.ret = "ValueError" THEN [s EXCEPT !.ret = "ValueError"]
    ELSE IF ~create_ok THEN [s EXCEPT !.data = a.data]
    ELSE IF h.ret = "ClickException"
    THEN [s EXCEPT !.data = a.data, !.exists = @ \cup {name},
                   !.state = [@ EXCEPT ![name] = a.ret], !.ret = "ClickException"]
    ELSE [s EXCEPT !.content = h.content, !.data = h.data, !.exists = @ \cup {name},
                   !.state = [@ EXCEPT ![name] = a.ret]]

\* what `sudo lxc-ls` answers when the containers of exists exist
LxcLs(lxc_ok, exists) == [ok |-> lxc_ok, names |-> IF lxc_ok THEN exists ELSE {}]

\* the runtime after lxc-start of the container
Started(state, name) == [state EXCEPT ![name] = IF @ = "" THEN StartIp[name] ELSE @]

\* the body of up's loop for one container; s is [content, data, exists,
\* state, ret]; lxc_ok is whether `sudo lxc-ls` succeeds, create_ok whether
\* lxc-create does
UpContainer(s, name, lxc_ok, create_ok) ==
    IF name \notin s.exists /\ get_container_ip(s.content, name) # "None"
    THEN \* name conflict: sys.exit(1)
         [s EXCEPT !.ret = "exit"]
    ELSE IF name \in s.exists
    THEN UpExisting(s, Started(s.state, name),
                    add_container(s.content, s.data, name, Started(s.state, name)[name],
                                  LxcLs(lxc_ok, s.exists)))
    ELSE UpCreate(s, name, allocate_ip(s.data, name),
                  add_container(s.content, allocate_ip(s.data, name).data, name,
                                allocate_ip(s.data, name).ret,
                                LxcLs(lxc_ok, s.exists \cup {name})),
                  create_ok)

\* the container loop of up from the i-th container of the order on; an
\* exception or sys.exit ends it
RECURSIVE UpContainers(_, _, _, _, _)
UpAfter(s, order, i, lxc_ok, create_ok) ==
    IF s.ret # "ok" THEN s ELSE UpContainers(s, order, i + 1, lxc_ok, create_ok)

UpContainers(s, order, i, lxc_ok, create_ok) ==
    IF i > Len(order) THEN s
    ELSE UpAfter(UpContainer(s, order[i], lxc_ok, create_ok), order, i, lxc_ok, create_ok)

\* the rules up installs for a declared forward: tcp, no interface, no comment
UpDnatRule(forward, container_ip) ==
    [ table |-> "nat", chain |-> "PREROUTING", iface |-> "", proto |-> "tcp", dst |-> "",
      dport |-> forward.host_port, state |-> "", target |-> "DNAT",
      to |-> <<container_ip, forward.container_port>>, comment |-> "" ]

UpAcceptRule(forward, container_ip) ==
    [ table |-> "filter", chain |-> "FORWARD", iface |-> "", proto |-> "tcp",
      dst |-> container_ip, dport |-> forward.container_port,
      state |-> "NEW,ESTABLISHED,RELATED", target |-> "ACCEPT", to |-> <<>>,
      comment |-> "" ]

\* the loop of up over all_port_forwards: the address comes from the hosts
\* file; the DNAT rule is deleted and appended, the accept rule appended
RECURSIVE UpForwards(_, _, _)
UpForwards(rules, content, port_forwards) ==
    IF port_forwards = <<>> THEN rules
    ELSE LET forward == Head(port_forwards)
             container_ip == get_container_ip(content, forward.container)
         IN  IF container_ip # "None"
             THEN UpForwards(
                      AppendRule(AppendRule(DeleteRule(rules, UpDnatRule(forward, container_ip)),
                                            UpDnatRule(forward, container_ip)),
                                 UpAcceptRule(forward, container_ip)),
                      content, Tail(port_forwards))
             ELSE UpForwards(rules, content, Tail(port_forwards))

\* the end of up after the container loop left c: the declared port
\* forwards, unless the loop ended the command
UpEnd(c, rules, config) ==
    IF c.ret # "ok" THEN [s |-> c, rules |-> rules]
    ELSE [s |-> c, rules |-> UpForwards(rules, c.content, config.port_forwards)]

\* up, the whole command: the reconciliation step, the containers of the
\* configuration in order, then the declared port forwards.  The port-forward
\* registry is not among its results: the command never opens it.
up_command(s, rules, config, lxc_ok, create_ok) ==
    IF up(s.content, s.data).ret # "ok"
    THEN [s |-> [s EXCEPT !.ret = up(s.content, s.data).ret], rules |-> rules]
    ELSE UpEnd(UpContainers([s EXCEPT !.content = up(s.content, s.data).content,
                                      !.data = up(s.content, s.data).data, !.ret = "ok"],
                            config.order, 1, lxc_ok, create_ok),
               rules, config)

\* destroy (confirmed): lxc-stop, lxc-destroy, then remove_container; an
\* exception of the cleanup is reported as a warning
destroy(s, container) ==
    LET h == remove_container(s.content, s.data, container)
    IN  [ s EXCEPT !.exists = @ \ {container},
                   !.state = [n \in DOMAIN @ |-> IF n = container THEN "" ELSE @[n]],
                   !.content = h.content, !.data = h.data, !.ret = "ok" ]

\* port add: add_forward, then on success save_iptables_rules and the hint;
\* the command function returns either way, so the process ends with 0
port_add(config, rules, state, host_port, container, container_port, protocol, description, fail) ==
    LET r == add_forward(config, rules, state, host_port, container, container_port,
                         protocol, description, fail)
    IN  [config |-> r.config, rules |-> r.rules, ret |-> r.ret, msg |-> r.msg, exit |-> 0]

\* the hosts file, the allocation registry and the runtime
SrvState ==
    [content |-> etc_hosts, data |-> registry, exists |-> containers, state |-> live,
     ret |-> "ok"]

UpCommand(config) ==
    \E lxc_ok \in BOOLEAN, create_ok \in BOOLEAN :
        LET r == up_command(SrvState, iptables, config, lxc_ok, create_ok)
        IN  /\ BagCardinality(r.rules) <= MaxRules
            /\ etc_hosts' = r.s.content
            /\ registry' = r.s.data
            /\ containers' = r.s.exists
            /\ live' = r.s.state
            /\ iptables' = r.rules
            /\ last' = [op |-> "up", name |-> "None", config |-> config, res |-> r.s.ret,
                        exit |-> IF r.s.ret = "ok" THEN 0 ELSE 1, create_ok |-> create_ok]
            /\ UNCHANGED <<shared_hosts, forwards, saved_ips, pc, loc, lock>>

Destroy(container) ==
    LET r == destroy(SrvState, container)
    IN  /\ Len(etc_hosts) < MaxFileLines
        /\ etc_hosts' = r.content
        /\ registry' = r.data
        /\ containers' = r.exists
        /\ live' = r.state
        /\ last' = [op |-> "destroy", name |-> container, config |-> <<>>, res |-> r.ret,
                    exit |-> 0]
        /\ UNCHANGED <<shared_hosts, forwards, iptables, saved_ips, pc, loc, lock>>

PortAdd(host_port, container, container_port, protocol) ==
    \E fail \in FailKinds :
        LET r == port_add(forwards, iptables, live, host_port, container, container_port,
                          protocol, "", fail)
        IN  /\ BagCardinality(r.rules) <= MaxRules
            /\ forwards' = r.config
            /\ iptables' = r.rules
            /\ last' = [op |-> "port_add", name |-> container,
                        config |-> <<host_port, container_port, protocol>>,
                        res |-> r.ret, msg |-> r.msg, exit |-> r.exit]
            /\ UNCHANGED <<registry, etc_hosts, shared_hosts, containers, live, saved_ips,
                           pc, loc, lock>>

\* Someone creates and starts a container, or stops one, with the runtime's
\* own tools.
RuntimeStart(container) ==
    /\ live[container] = ""
    /\ containers' = containers \cup {container}
    /\ live' = [live EXCEPT ![container] = StartIp[container]]
    /\ last' = [op |-> "start", name |-> container, config |-> <<>>, res |-> "ok", exit |-> 0]
    /\ UNCHANGED <<registry, etc_hosts, shared_hosts, forwards, iptables, saved_ips, pc, loc, lock>>

RuntimeStop(container) ==
    /\ live[container] # ""
    /\ live' = [live EXCEPT ![container] = ""]
    /\ last' = [op |-> "stop", name |-> container, config |-> <<>>, res |-> "ok", exit |-> 0]
    /\ UNCHANGED <<registry, etc_hosts, shared_hosts, containers, forwards, iptables, saved_ips, pc, loc, lock>>

\* A host without containers: /etc/hosts without managed section, the fresh
\* allocation registry, no forward and no rule.
InitSrv ==
    /\ registry = ensure_allocations_file
    /\ etc_hosts = <<"127.0.0.1\tlocalhost", "">>
    /\ shared_hosts = <<"">>
    /\ containers = {}
    /\ live = [n \in PortNames |-> ""]
    /\ forwards = <<>>
    /\ iptables = <<>>
    /\ saved_ips = <<>>
    /\ last = NoCall
    /\ pc = <<>>
    /\ loc = <<>>
    /\ lock = 0

NextSrv ==
    \/ \E config \in UpConfigs : UpCommand(config)
    \/ \E call \in AddCalls : PortAdd(call[1], call[2], call[3], call[4])
    \/ \E container \in PortNames :
        \/ Destroy(container)
        \/ RuntimeStart(container)
        \/ RuntimeStop(container)

SpecSrv == InitSrv /\ [][NextSrv]_vars

(***************************************************************************)
(* srv/lxc-compose/cli/lxc_compose.py: up on a host whose hosts file       *)
(* already has an entry of a configured name                               *)
(***************************************************************************)
\* /etc/hosts before the first command: without a managed section, and with
\* the entry of a container of another project named web or api
BringUpHosts ==
    { <<"127.0.0.1\tlocalhost", "">>,
      <<"127.0.0.1\tlocalhost", "", marker_start, "10.0.3.20\tweb", marker_end, "">>,
      <<"127.0.0.1\tlocalhost", "", marker_start, "10.0.3.20\tapi", marker_end, "">> }

InitBringUp ==
    /\ registry = ensure_allocations_file
    /\ etc_hosts \in BringUpHosts
    /\ shared_hosts = <<"">>
    /\ containers = {}
    /\ live = [n \in PortNames |-> ""]
    /\ forwards = <<>>
    /\ iptables = <<>>
    /\ saved_ips = <<>>
    /\ last = NoCall
    /\ pc = <<>>
    /\ loc = <<>>
    /\ lock = 0

NextBringUp ==
    \/ \E config \in UpConfigs : UpCommand(config)
    \/ \E container \in PortNames :
        \/ Destroy(container)
        \/ RuntimeStart(container)
        \/ RuntimeStop(container)

SpecBringUp == InitBringUp /\ [][NextBringUp]_vars

(***************************************************************************)
(* hosts_manager.py: the writes of /etc/hosts and of the allocation        *)
(* registry when the direct write is denied                                *)
(***************************************************************************)
\* how a write of a file goes: the direct write succeeds; it raises
\* PermissionError and `sudo cp` succeeds; or both fail
Writes == {"direct", "sudo", "denied"}

\* save_allocations: write_text, and on PermissionError `sudo cp` of a
\* temporary file with the same text; the return code of cp is not looked at
save_allocations_sudo(current, data, how) ==
    IF how = "denied" THEN current ELSE data

\* the end of write_hosts: the direct write, and on PermissionError `sudo cp`
\* of a temporary file with content_str; a return code other than 0 raises
\* PermissionError
write_hosts_sudo(current, content_str, how) ==
    IF how = "denied" THEN [content |-> current, ret |-> "PermissionError"]
    ELSE [content |-> content_str, ret |-> "None"]

\* allocate_ip with the write of the registry: save_allocations is called
\* only for a new allocation
allocate_ip_sudo(current, container_name, how) ==
    LET a == allocate_ip(current, container_name)
    IN  [ data |-> IF a.data = current THEN current
                   ELSE save_allocations_sudo(current, a.data, how),
          ret |-> a.ret, want |-> a.data ]

\* release_ip with the write of the registry
release_ip_sudo(current, container_name, how) ==
    LET a == release_ip(current, container_name)
    IN  [ data |-> IF a.ret THEN save_allocations_sudo(current, a.data, how) ELSE current,
          ret |-> a.ret, want |-> a.data ]

\* add_container with the writes of both files; want is what the files hold
\* when every direct write succeeds
add_container_sudo(content, data, container_name, ip, lxc, hosts_how, alloc_how) ==
    LET r == add_container(content, data, container_name, ip, lxc)
        a == IF ip = "" THEN allocate_ip_sudo(data, container_name, alloc_how)
             ELSE [data |-> data, ret |-> ip, want |-> data]
        w == write_hosts_sudo(content, r.content, hosts_how)
    IN  IF r.ret = "ClickException"
        THEN [content |-> content, data |-> data, ret |-> r.ret, want |-> r, wrote |-> FALSE]
        ELSE IF r.ret = "ValueError"
        THEN [content |-> content, data |-> a.data, ret |-> r.ret, want |-> r, wrote |-> FALSE]
        ELSE [ content |-> w.content, data |-> a.data,
               ret |-> IF w.ret = "PermissionError" THEN w.ret ELSE r.ret,
               want |-> r, wrote |-> TRUE ]

\* remove_container with the writes of both files: write_hosts first, then
\* release_ip
remove_container_sudo(content, data, container_name, hosts_how, alloc_how) ==
    LET r == remove_container(content, data, container_name)
        w == write_hosts_sudo(content, r.content, hosts_how)
    IN  IF ~r.ret
        THEN [content |-> content, data |-> data, ret |-> "False", want |-> r, wrote |-> FALSE]
        ELSE IF w.ret = "PermissionError"
        THEN [content |-> content, data |-> data, ret |-> w.ret, want |-> r, wrote |-> TRUE]
        ELSE [ content |-> w.content,
               data |-> release_ip_sudo(data, container_name, alloc_how).data,
               ret |-> "True", want |-> r, wrote |-> TRUE ]

AllocateIpSudo(name) ==
    /\ name \in DOMAIN registry.allocations \/ registry.next_ip < start_from + MaxHostFresh
    /\ \E how \in Writes :
         LET r == allocate_ip_sudo(registry, name, how)
         IN  /\ registry' = r.data
             /\ last' = [op |-> "allocate_ip", name |-> name, ip |-> "None", res |-> r.ret,
                         hosts_how |-> "direct", alloc_how |-> how, wrote |-> FALSE]
    /\ UNCHANGED <<etc_hosts, shared_hosts, containers, live, forwards, iptables, saved_ips, pc, loc, lock>>

AddContainerSudo(name, ip) ==
    /\ Len(etc_hosts) < MaxFileLines
    /\ \/ ip # ""
       \/ name \in DOMAIN registry.allocations
       \/ registry.next_ip < start_from + MaxHostFresh
    /\ \E lxc \in {[ok |-> TRUE, names |-> {}]}, hosts_how \in Writes, alloc_how \in Writes :
         LET r == add_container_sudo(etc_hosts, registry, name, ip, lxc, hosts_how, alloc_how)
         IN  /\ etc_hosts' = r.content
             /\ registry' = r.data
             /\ last' = [op |-> "add_container", name |-> name, ip |-> ip, res |-> r.ret,
                         hosts_how |-> hosts_how, alloc_how |-> alloc_how,
                         wrote |-> r.wrote, lxc |-> lxc]
    /\ UNCHANGED <<shared_hosts, containers, live, forwards, iptables, saved_ips, pc, loc, lock>>

RemoveContainerSudo(name) ==
    /\ Len(etc_hosts) < MaxFileLines
    /\ \E hosts_how \in Writes, alloc_how \in Writes :
         LET r == remove_container_sudo(etc_hosts, registry, name, hosts_how, alloc_how)
         IN  /\ etc_hosts' = r.content
             /\ registry' = r.data
             /\ last' = [op |-> "remove_container", name |-> name, ip |-> "None",
                         res |-> r.ret, hosts_how |-> hosts_how, alloc_how |-> alloc_how,
                         wrote |-> r.wrote]
    /\ UNCHANGED <<shared_hosts, containers, live, forwards, iptables, saved_ips, pc, loc, lock>>

NextSudo ==
    \E name \in HostNames :
        \/ AllocateIpSudo(name)
        \/ AddContainerSudo(name, "")
        \/ RemoveContainerSudo(name)

SpecSudo == InitHosts /\ [][NextSudo]_vars

(***************************************************************************)
(* srv/lxc-compose/cli/lxc_compose.py: the cleanup command                 *)
(***************************************************************************)
\* cleanup: a failed `sudo lxc-ls` gives the empty set of existing
\* containers; every managed entry of a container not in the set is removed
\* with remove_container
cleanup(content, data, lxc) ==
    OrphanLoop(list_entries(content), content, data,
               IF lxc.ok THEN lxc.names ELSE {}, 0, TRUE)

Cleanup ==
    /\ Len(etc_hosts) < MaxFileLines
    /\ \E lxc \in LxcOutcomes :
         LET r == cleanup(etc_hosts, registry, lxc)
         IN  /\ etc_hosts' = r.content
             /\ registry' = r.data
             /\ last' = [op |-> "cleanup", name |-> "None", ip |-> "None",
                         res |-> r.ret, lxc |-> lxc]
    /\ UNCHANGED <<shared_hosts, containers, live, forwards, iptables, saved_ips, pc, loc, lock>>

\* Both reconciliations, between calls that add hosts entries.
NextCleanup ==
    \/ \E name \in HostNames, ip \in IpArgs : AddContainer(name, ip)
    \/ CleanupOrphanedEntries
    \/ Cleanup

SpecCleanup == InitHosts /\ [][NextCleanup]_vars

(***************************************************************************)
(* srv/lxc-compose/cli/lxc_compose.py: the start order of up.  loc[1] is   *)
(* the configuration: its containers in the order of the file and the      *)
(* depends_on list of each; pc[1] tells whether the order was computed.    *)
(***************************************************************************)
\* the containers of the configuration, in the order of the file
OrderContainers == <<"web", "db", "api">>

\* the depends_on lists of a container; cache is not a container of the
\* configuration
DependsOnLists ==
    { <<>>, <<"web">>, <<"db">>, <<"api">>, <<"cache">>, <<"db", "api">>, <<"api", "db">> }

RECURSIVE add_container_with_deps(_, _, _, _)
RECURSIVE DepLoop(_, _, _, _, _)

\* the end of add_container_with_deps: the container is added unless a call
\* for a dependency has added it
AddSelf(st, cont_name) ==
    IF st.ret # "ok" \/ cont_name \in st.processed THEN st
    ELSE [st EXCEPT !.container_order = Append(@, cont_name),
                    !.processed = @ \cup {cont_name}]

\* a dependency that is a container of the configuration is processed first
DepCall(config, st, dep, active) ==
    IF InSeq(dep, config.containers) THEN add_container_with_deps(config, st, dep, active)
    ELSE st

\* for dep in cont_cfg['depends_on'], from the i-th on
DepLoop(config, st, deps, i, active) ==
    IF i > Len(deps) \/ st.ret # "ok" THEN st
    ELSE DepLoop(config, DepCall(config, st, deps[i], active), deps, i + 1, active)

\* add_container_with_deps; st is [container_order, processed, ret] and
\* active the names whose calls have not returned.  A call for a name of
\* active starts with the same processed set that led to it, so it makes the
\* same calls again and the recursion never returns: Python ends it with
\* RecursionError.
add_container_with_deps(config, st, cont_name, active) ==
    IF cont_name \in st.processed THEN st
    ELSE IF cont_name \in active THEN [st EXCEPT !.ret = "RecursionError"]
    ELSE AddSelf(DepLoop(config, st, config.depends_on[cont_name], 1,
                         active \cup {cont_name}),
                 cont_name)

\* for name in containers: add_container_with_deps(name), from the i-th on
RECURSIVE OrderLoop(_, _, _)
OrderLoop(config, st, i) ==
    IF i > Len(config.containers) \/ st.ret # "ok" THEN st
    ELSE OrderLoop(config, add_container_with_deps(config, st, config.containers[i], {}),
                   i + 1)

\* the order up starts the containers in
container_order(config) ==
    OrderLoop(config, [container_order |-> <<>>, processed |-> {}, ret |-> "ok"], 1)

ContainerOrder ==
    /\ pc[1] = "start"
    /\ pc' = <<"done">>
    /\ last' = [op |-> "container_order", name |-> "None",
                res |-> container_order(loc[1]).ret,
                order |-> container_order(loc[1]).container_order]
    /\ UNCHANGED <<registry, etc_hosts, shared_hosts, containers, live, forwards, iptables,
                   saved_ips, loc, lock>>

InitOrder ==
    /\ registry = ensure_allocations_file
    /\ etc_hosts = <<"">>
    /\ shared_hosts = <<"">>
    /\ containers = {}
    /\ live = <<>>
    /\ forwards = <<>>
    /\ iptables = <<>>
    /\ saved_ips = <<>>
    /\ last = NoCall
    /\ pc = <<"start">>
    /\ \E depends_on \in [{"web", "db", "api"} -> DependsOnLists] :
          loc = <<[containers |-> OrderContainers, depends_on |-> depends_on]>>
    /\ lock = 0

NextOrder == ContainerOrder

SpecOrder == InitOrder /\ [][NextOrder]_vars

(***************************************************************************)
(* Properties of the IP allocator (SpecAlloc).                             *)
(***************************************************************************)
Allocated == DOMAIN registry.allocations

AllocatedNew ==
    /\ last.op = "allocate_ip"
    /\ last.name \notin DOMAIN last.pre.registry.allocations

\* C1: after any sequence of allocate and release calls no two names of the
\* registry map to the same suffix, no assigned suffix is reserved, and the
\* addresses of distinct allocated names (the ones allocate returned) differ.
C1_UniqueSuffixes ==
    /\ \A a \in Allocated : registry.allocations[a] \notin registry.reserved
    /\ \A a, b \in Allocated :
           a # b => /\ registry.allocations[a] # registry.allocations[b]
                    /\ Address(registry.allocations[a]) # Address(registry.allocations[b])
    /\ (last.op = "allocate_ip" /\ last.res # "ValueError")
           => last.res = Address(registry.allocations[last.name])

\* three names hold addresses, one of them given out after a release
C1_Witness ==
    /\ Cardinality(Allocated) = 3
    /\ registry.next_ip > start_from + 3

\* C2: every address allocate returns has a last octet in start_from..254.
C2_SuffixInRange ==
    (last.op = "allocate_ip" /\ last.res # "ValueError")
        => \E s \in start_from..LastSuffix : last.res = Address(s)

\* every suffix from next_ip up to 254 is reserved or allocated
NoneFree(data) ==
    \A s \in data.next_ip..LastSuffix : s \in data.reserved \/ s \in Values(data)

\* C3: allocate of a new name fails whenever no suffix from nextCandidate up
\* to 254 is free, and then leaves the registry unchanged.
C3_ExhaustedFails ==
    (AllocatedNew /\ NoneFree(last.pre.registry))
        => /\ last.res = "ValueError"
           /\ registry = last.pre.registry

\* C4: allocate of a name that is already allocated returns the address the
\* registry holds for it (the one the first call returned) and leaves the
\* registry, allocations and next_ip, as the first call left it.
C4_AllocateIdempotent ==
    last.op = "allocate_ip" =>
        /\ last.res # "ValueError" => last.res = Address(registry.allocations[last.name])
        /\ last.name \in DOMAIN last.pre.registry.allocations
               => /\ last.res = Address(last.pre.registry.allocations[last.name])
                  /\ registry = last.pre.registry

C4_Witness ==
    /\ last.op = "allocate_ip"
    /\ last.name \in DOMAIN last.pre.registry.allocations
    /\ Cardinality(Allocated) > 1

C5_ReleaseEffect ==
    /\ last.op = "release_ip"
           => /\ registry.next_ip = last.pre.registry.next_ip
              /\ registry.allocations = Drop(last.pre.registry.allocations, last.name)
    /\ (AllocatedNew /\ last.res # "ValueError")
           => registry.allocations[last.name] >= last.pre.registry.next_ip
    /\ ( /\ AllocatedNew
         /\ last.name = "cache"
         /\ last.pre.registry = [ensure_allocations_file EXCEPT
                                     !.next_ip = 13, !.allocations = "db" :> 12] )
           => last.res = "10.0.3.13"

\* C5: release removes only the name's mapping and never rewinds next_ip:
\* next_ip never decreases, a suffix given to a new name is never below the
\* next_ip before the call, and after web -> .11, db -> .12, release web,
\* allocate cache returns .13.
C5_NoRewind ==
    /\ [][registry'.next_ip >= registry.next_ip]_vars
    /\ []C5_ReleaseEffect

\* web was released and cache then got .13
C5_Witness ==
    /\ AllocatedNew
    /\ last.name = "cache"
    /\ last.pre.registry.allocations = "db" :> 12
    /\ last.pre.registry.next_ip = 13
    /\ registry.allocations = ("db" :> 12) @@ ("cache" :> 13)

Outside(content) == read_hosts(content).before \o read_hosts(content).after

\* C10: every hosts add and remove leaves the content outside the managed
\* region unchanged, line for line.
C10_OutsidePreserved ==
    [][ last'.op \in {"add_container", "remove_container"}
        => Outside(etc_hosts') = Outside(etc_hosts) ]_vars

\* the managed entries of the hosts file whose container is one of names
EntriesFor(content, names) ==
    LET entries == list_entries(content)
    IN  SelectSeq(entries, LAMBDA e : e.container \in names)

\* C14: when the listing succeeds, cleanup_orphaned_entries leaves no managed
\* entry of a container that is not listed, no allocation of a container whose
\* entry it removed, and every entry and allocation of a listed container as
\* it was.
C14_OrphansRemoved ==
    [][ (last'.op = "cleanup_orphaned_entries" /\ last'.lxc.ok) =>
          LET listed == last'.lxc.names
              before == list_entries(etc_hosts)
              after == list_entries(etc_hosts')
          IN  /\ \A i \in 1..Len(after) : after[i].container \in listed
              /\ \A i \in 1..Len(before) :
                    before[i].container \notin listed
                        => before[i].container \notin DOMAIN registry'.allocations
              /\ EntriesFor(etc_hosts', listed) = EntriesFor(etc_hosts, listed)
              /\ \A n \in listed :
                    /\ (n \in DOMAIN registry'.allocations) = (n \in DOMAIN registry.allocations)
                    /\ n \in DOMAIN registry.allocations
                         => registry'.allocations[n] = registry.allocations[n] ]_vars

\* a cleanup removed the entry of a missing container and kept the entry and
\* the allocation of a listed one
C14_Witness ==
    /\ last.op = "cleanup_orphaned_entries"
    /\ last.lxc.ok
    /\ last.res >= 1
    /\ last.lxc.names = {"web"}
    /\ get_container_ip(etc_hosts, "web") # "None"
    /\ "web" \in DOMAIN registry.allocations
    /\ "db" \notin DOMAIN registry.allocations

\* C15: list, ps, up and down first prune the managed entries of containers
\* the runtime does not list and then go on: after the command no managed
\* entry names a container that a successful listing does not show, and the
\* command has not ended in the reconciliation step.
C15_ReconcileFirst ==
    [][ last'.op \in {"list", "ps", "up", "down"} =>
          LET after == list_entries(etc_hosts')
          IN  /\ last'.res = "ok"
              /\ last'.lxc.ok =>
                    \A i \in 1..Len(after) : after[i].container \in last'.lxc.names ]_vars

(***************************************************************************)
(* Properties of the hosts files of cli/lxc_compose.py (SpecCli).          *)
(***************************************************************************)
\* the lines of the host machine's managed section
RECURSIVE MachineSection(_, _)
MachineSection(lines, in_section) ==
    IF lines = <<>> THEN <<>>
    ELSE IF Head(lines) = machine_marker_start THEN MachineSection(Tail(lines), TRUE)
    ELSE IF Head(lines) = machine_marker_end THEN MachineSection(Tail(lines), FALSE)
    ELSE (IF in_section THEN <<Head(lines)>> ELSE <<>>)
         \o MachineSection(Tail(lines), in_section)

\* the number of lines that have name as a token
Occurrences(lines, name) ==
    Cardinality({i \in 1..Len(lines) : InSeq(name, Split(lines[i]))})

\* C9: after any sequence of hosts add and remove calls each container name
\* occurs in at most one entry of the shared hosts file and of the host
\* machine's managed section.
C9_NamesUnique ==
    \A name \in HostNames :
        /\ Occurrences(shared_hosts, name) <= 1
        /\ Occurrences(MachineSection(etc_hosts, FALSE), name) <= 1

(***************************************************************************)
(* Properties of concurrent hosts calls (SpecConc).                        *)
(***************************************************************************)
Finished(p) == pc[p] \in {"done", "failed"}

\* C7: two concurrent add/remove calls do not lose an update: once both have
\* completed, the managed section has the entry of every add and no entry of
\* a removed name.
C7_NoLostUpdate ==
    (\A p \in Procs : pc[p] = "done") =>
        \A p \in Procs :
            get_container_ip(etc_hosts, loc[p].name) =
                (IF loc[p].op = "add" THEN loc[p].ip ELSE "None")

\* C8: a concurrent reader never observes an empty (truncated) hosts file.
C8_NeverReadsEmpty ==
    \A p \in Procs : \A i \in 1..Len(loc[p].seen) : loc[p].seen[i] # <<"">>

(***************************************************************************)
(* Properties of write_hosts and read_hosts (SpecRound)                    *)
(***************************************************************************)
\* C11: write_hosts(before, managed, after) followed by read_hosts returns
\* exactly (before, managed, after).
C11_RoundTrip ==
    pc = "read" =>
        /\ last.res.before = loc.before
        /\ last.res.managed = loc.managed
        /\ last.res.after = loc.after

(***************************************************************************)
(* Properties of the port manager (SpecPorts).  A step of SpecPorts is one *)
(* call or one change of the runtime; last' describes it and the unprimed  *)
(* variables are the registry, the rules and the runtime before it.        *)
(***************************************************************************)
\* no two rules of the registry have the same host port and protocol
UniqueForwards(config) ==
    \A i, j \in 1..Len(config) :
        (config[i].host_port = config[j].host_port
            /\ config[i].protocol = config[j].protocol) => i = j

\* a rule of another container holds the pair of the call last' describes
HeldByOther ==
    \E i \in 1..Len(forwards) :
        /\ forwards[i].host_port = last'.host_port
        /\ forwards[i].protocol = last'.protocol
        /\ forwards[i].container_name # last'.name

Installed(rules, table, target, proto, dport, dst, to) ==
    \E r \in BagToSet(rules) :
        /\ r.table = table /\ r.target = target /\ r.proto = proto
        /\ r.dport = dport /\ r.dst = dst /\ r.to = to

\* C18: after a successful add the DNAT rule host port -> live address:container
\* port, the accept rule and a masquerade rule are installed and the registry
\* holds the new rule with the live address.
C18_AddInstalls ==
    (last.op = "add_forward" /\ last.res = TRUE) =>
        LET ip == live[last.name] IN
        /\ Installed(iptables, "nat", "DNAT", last.protocol, last.host_port, "",
                     <<ip, last.container_port>>)
        /\ Installed(iptables, "filter", "ACCEPT", last.protocol, last.container_port,
                     ip, <<>>)
        /\ \E r \in BagToSet(iptables) : r.target = "MASQUERADE"
        /\ \E i \in 1..Len(forwards) :
              /\ forwards[i].host_port = last.host_port
              /\ forwards[i].protocol = last.protocol
              /\ forwards[i].container_name = last.name
              /\ forwards[i].container_port = last.container_port
              /\ forwards[i].container_ip = ip

\* the registry rule at position i has the pair of the call last' describes
IsRemoved(i) ==
    /\ forwards[i].host_port = last'.host_port
    /\ forwards[i].protocol = last'.protocol

\* C19: remove of a pair the registry holds succeeds, drops exactly that rule
\* and keeps every other rule, in order; remove of a pair it does not hold
\* fails and changes neither the registry nor the installed rules.
C19_RemoveEffect ==
    [][ last'.op = "remove_forward" =>
          IF \E i \in 1..Len(forwards) : IsRemoved(i)
          THEN /\ last'.res = TRUE
               /\ \E i \in 1..Len(forwards) :
                     /\ IsRemoved(i)
                     /\ forwards' = SubSeq(forwards, 1, i - 1)
                                        \o SubSeq(forwards, i + 1, Len(forwards))
          ELSE /\ last'.res = FALSE
               /\ forwards' = forwards
               /\ iptables' = iptables ]_vars

\* a remove succeeded and left the other rule of the host port in the registry
C19_Witness ==
    /\ last.op = "remove_forward"
    /\ last.res = TRUE
    /\ Len(forwards) = 1
    /\ forwards[1].host_port = last.host_port
    /\ forwards[1].protocol # last.protocol

\* C20: list_forwards leaves the persisted registry and the installed rules
\* unchanged, whatever the live addresses are.
C20_ListIsPure ==
    [][ last'.op = "list_forwards" => forwards' = forwards /\ iptables' = iptables ]_vars

(***************************************************************************)
(* Properties of the network setup of cli/lxc_compose.py (SpecNet).        *)
(***************************************************************************)
\* a line of the hosts file names the container
HasEntry(content, name) == \E i \in 1..Len(content) : InSeq(name, Split(content[i]))

\* a rule of the chain has the address as source or destination
References(chain, ip) == \E i \in 1..Len(chain) : chain[i].src = ip \/ chain[i].dst = ip

\* C13: when a step of the network setup fails after an earlier step
\* completed, then once the call has ended neither hosts file has an entry for
\* the name, no rule references the container's address and no saved record
\* of the name exists.
C13_RollbackComplete ==
    (last.op = "setup_container_networking" /\ last.fail \notin {"none", "save"}
        /\ last.res # "warning") =>
        /\ ~HasEntry(shared_hosts, last.name)
        /\ ~HasEntry(etc_hosts, last.name)
        /\ ~References(iptables, last.ip)
        /\ last.name \notin DOMAIN saved_ips

(***************************************************************************)
(* Properties of the name-conflict check (SpecConflict).                   *)
(***************************************************************************)
\* the managed section of /etc/hosts has an entry of the name
InManaged(content, name) ==
    \E i \in 1..Len(list_entries(content)) : list_entries(content)[i].container = name

\* C16: check_name_conflict(name) returns True exactly when the name has an
\* entry in the managed section of /etc/hosts or in the shared hosts file, or
\* is in the list of containers the runtime answers.
C16_ConflictExact ==
    last.op = "check_name_conflict" =>
        ( last.res <=> \/ InManaged(etc_hosts, last.name)
                       \/ HasEntry(shared_hosts, last.name)
                       \/ last.name \in last.lxc.names )

(***************************************************************************)
(* Properties of the unlocked registries (SpecRace).                       *)
(***************************************************************************)
\* both calls have ended and both are calls of op
BothDone(op) == \A p \in Procs : pc[p] = "done" /\ loc[p].op = op

\* each call loaded the document before the other one saved
Overlapped == loc[1].data = loc[2].data

\* C17: two allocate calls for distinct names whose load and save steps
\* interleave are handed the same address and only one of the two allocations
\* is in the registry afterwards; two add-forward calls that interleave both
\* succeed and only one of the two rules is in the registry afterwards.
C17_LostUpdate ==
    /\ BothDone("allocate_ip") /\ Overlapped =>
          /\ loc[1].ret = loc[2].ret
          /\ Cardinality(DOMAIN registry.allocations) = 1
    /\ BothDone("add_forward") /\ Overlapped =>
          /\ loc[1].ret /\ loc[2].ret
          /\ Len(forwards) = 1

C17_Witness ==
    /\ BothDone("allocate_ip") /\ Overlapped
    /\ loc[1].name # loc[2].name
    /\ loc[1].ret = "10.0.3.11" /\ loc[2].ret = "10.0.3.11"
    /\ DOMAIN registry.allocations = {"web"}

(***************************************************************************)
(* Properties of update_container_ip and apply_all_rules (SpecPorts).      *)
(***************************************************************************)
\* the installed rule carries the comment of a registry rule of the container
RuleOf(r, config, container_name) ==
    \E i \in 1..Len(config) :
        config[i].container_name = container_name /\ r.comment = Comment(config[i])

\* the address an installed DNAT or accept rule sends traffic to
TargetIp(r) == IF r.target = "DNAT" THEN r.to[1] ELSE r.dst

\* C21: update_container_ip(name) for a running container leaves every
\* registry rule of name with the live address, no installed DNAT or accept
\* rule of name's mappings with another address, and the registry rules of
\* other containers as they were.
C21_UpdateRetargets ==
    [][ (last'.op = "update_container_ip" /\ live[last'.name] # "") =>
          /\ \A i \in 1..Len(forwards') :
                forwards'[i].container_name = last'.name
                    => forwards'[i].container_ip = live[last'.name]
          /\ \A r \in BagToSet(iptables') :
                (r.target \in {"DNAT", "ACCEPT"} /\ RuleOf(r, forwards', last'.name))
                    => TargetIp(r) = live[last'.name]
          /\ Len(forwards') = Len(forwards)
          /\ \A i \in 1..Len(forwards) :
                forwards[i].container_name # last'.name => forwards'[i] = forwards[i]
      ]_vars

\* C22: apply_all_rules gives every registry rule whose container has a live
\* address that address and keeps the others; it returns True exactly when
\* every registry rule has a live address and both of its rules were appended,
\* with the addresses the registry holds afterwards.
C22_ApplyAllResult ==
    [][ last'.op = "apply_all_rules" =>
          /\ Len(forwards') = Len(forwards)
          /\ \A i \in 1..Len(forwards) :
                forwards'[i] =
                    IF live[forwards[i].container_name] # ""
                    THEN [forwards[i] EXCEPT !.container_ip = live[forwards[i].container_name]]
                    ELSE forwards[i]
          /\ last'.res <=>
                /\ \A i \in 1..Len(forwards) : live[forwards[i].container_name] # ""
                /\ BagCardinality(iptables') = BagCardinality(iptables) + 1 + 2 * Len(forwards)
          /\ last'.res =>
                \A i \in 1..Len(forwards') :
                    /\ Installed(iptables', "nat", "DNAT", forwards'[i].protocol,
                                 forwards'[i].host_port, "",
                                 <<live[forwards'[i].container_name], forwards'[i].container_port>>)
                    /\ Installed(iptables', "filter", "ACCEPT", forwards'[i].protocol,
                                 forwards'[i].container_port,
                                 live[forwards'[i].container_name], <<>>)
      ]_vars

\* apply_all_rules succeeded on a rule whose container had changed its address
C22_Witness ==
    /\ last.op = "apply_all_rules"
    /\ last.res = TRUE
    /\ Len(forwards) = 1
    /\ forwards[1].container_ip = "10.0.3.12"
    /\ \E r \in BagToSet(iptables) : r.target = "DNAT" /\ r.to[1] = "10.0.3.11"

\* C24: apply_all_rules run right after a successful apply_all_rules, with
\* the same registry and the same live addresses, leaves the installed rules
\* as they were.
C24_ApplyAllIdempotent ==
    [][ ( /\ last.op = "apply_all_rules" /\ last.res = TRUE
          /\ last'.op = "apply_all_rules" /\ last'.res = TRUE
          /\ forwards' = forwards /\ live' = live )
        => iptables' = iptables ]_vars

(***************************************************************************)
(* Properties of the exposed-port policy (SpecExposed).                    *)
(***************************************************************************)
\* the rules of the chain that have the address as source or destination
RECURSIVE RulesFor(_, _)
RulesFor(chain, ip) ==
    IF chain = <<>> THEN <<>>
    ELSE (IF Head(chain).src = ip \/ Head(chain).dst = ip THEN <<Head(chain)>> ELSE <<>>)
         \o RulesFor(Tail(chain), ip)

\* C23: applying the policy again for the address and the port list of the
\* application before leaves the same rules for that address in the chain.
C23_ReapplyIdempotent ==
    [][ ( /\ last.op = "manage_exposed_ports" /\ last.action = "add"
          /\ last'.op = "manage_exposed_ports" /\ last'.action = "add"
          /\ last'.ip = last.ip /\ last'.ports = last.ports )
        => RulesFor(iptables', last'.ip) = RulesFor(iptables, last'.ip) ]_vars

\* C25: after an application of the policy for an address, every declared
\* port has an allow rule that stands before every drop rule of the address.
C25_AllowBeforeDrop ==
    (last.op = "manage_exposed_ports" /\ last.action = "add") =>
        \A k \in 1..Len(last.ports) :
            \E i \in 1..Len(iptables) :
                /\ iptables[i] = PortRule(last.ip, last.ports[k])
                /\ \A j \in 1..Len(iptables) : iptables[j] = DropRule(last.ip) => i < j

\* the rules of the chain at the positions from i on that are not in nums
RECURSIVE KeepUnselected(_, _, _)
KeepUnselected(chain, nums, i) ==
    IF i > Len(chain) THEN <<>>
    ELSE (IF i \in nums THEN <<>> ELSE <<chain[i]>>) \o KeepUnselected(chain, nums, i + 1)

\* C26: a removal for an address whose listing succeeded leaves no rule with
\* the address as source or destination, and leaves exactly the rules that
\* were not selected, in their order.
C26_RemovalComplete ==
    [][ ( /\ last'.op = "manage_exposed_ports" /\ last'.action = "remove"
          /\ last'.list_ok )
        => /\ ~References(iptables', last'.ip)
           /\ iptables' = KeepUnselected(iptables, rules_to_remove(iptables, last'.ip), 1)
      ]_vars

\* a removal took the rules of one address out of a chain that also holds
\* the rules of another address
C26_Witness ==
    /\ last.op = "manage_exposed_ports" /\ last.action = "remove" /\ last.list_ok
    /\ last.ip = "10.0.3.110"
    /\ last.before = 8
    /\ Len(iptables) = 4
    /\ iptables[1].dst = "10.0.3.11"

(***************************************************************************)
(* Properties of up, destroy and port add (SpecSrv).                       *)
(***************************************************************************)
\* both rules of a forward of the container are installed
ForwardInstalled(rules, container) ==
    \E call \in AddCalls :
        /\ call[2] = container
        /\ \A target \in {"DNAT", "ACCEPT"} :
              \E r \in BagToSet(rules) :
                  /\ r.target = target
                  /\ r.comment = "lxc-compose: " \o container \o ":" \o ToString(call[3])

\* C27: after destroy of a container the registry has no rule of that
\* container and the DNAT and accept rules of its forwards are not installed.
C27_DestroyDropsForwards ==
    last.op = "destroy" =>
        /\ \A i \in 1..Len(forwards) : forwards[i].container_name # last.name
        /\ ~ForwardInstalled(iptables, last.name)

\* up ended for a reason the command reports as such: a name conflict or an
\* exhausted subnet
UpRefused == last.res \in {"exit", "ClickException", "ValueError"}

C29_PortAddExit ==
    last.op = "port_add" => (last.exit = 0 <=> last.res = TRUE)

Conflicting(config) ==
    \E k \in 1..Len(config.order) :
        /\ config.order[k] \notin containers
        /\ get_container_ip(etc_hosts, config.order[k]) # "None"

\* the ways up reports a name conflict: sys.exit(1) after the message of the
\* loop, and the ClickException of add_container
NameConflict == {"exit", "ClickException"}

DirectContent ==
    IF last'.op = "add_container"
    THEN add_container(etc_hosts, registry, last'.name, last'.ip, last'.lxc).content
    ELSE remove_container(etc_hosts, registry, last'.name).content

\* C32: when the direct write of the hosts file is denied and `sudo cp`
\* succeeds the file holds what the direct write would have written, and when
\* both fail the call raises an error; and an address that allocate_ip or
\* add_container returns is the one the registry file maps the name to.
C32_FallbackWritesSame ==
    [][ /\ (last'.op \in {"add_container", "remove_container"} /\ last'.wrote) =>
              /\ last'.hosts_how = "sudo" => etc_hosts' = DirectContent
              /\ last'.hosts_how = "denied" => last'.res = "PermissionError"
        /\ ( /\ last'.op \in {"allocate_ip", "add_container"} /\ last'.ip \in {"", "None"}
             /\ last'.res \notin {"ClickException", "ValueError", "PermissionError"} ) =>
              /\ last'.name \in DOMAIN registry'.allocations
              /\ Address(registry'.allocations[last'.name]) = last'.res
      ]_vars

(***************************************************************************)
(* Properties of clear_all_rules, add_forward and remove_forward           *)
(* (SpecPorts).                                                            *)
(***************************************************************************)
\* the DNAT rule or the accept rule of the registry rule is installed
RuleInstalled(rules, forward) ==
    \/ Installed(rules, "nat", "DNAT", forward.protocol, forward.host_port, "",
                 <<forward.container_ip, forward.container_port>>)
    \/ Installed(rules, "filter", "ACCEPT", forward.protocol, forward.container_port,
                 forward.container_ip, <<>>)

\* C33: after clear_all_rules the registry is empty and neither the DNAT rule
\* nor the accept rule of any rule the registry held is installed.
C33_ClearRemovesAll ==
    [][ last'.op = "clear_all_rules" =>
          /\ forwards' = <<>>
          /\ \A i \in 1..Len(forwards) : ~RuleInstalled(iptables', forwards[i])
      ]_vars

\* C34: add_forward refuses a call as "already forwarded" only when the
\* registry holds the host port and protocol for another container or
\* container port; an add of the mapping the registry already holds is not
\* refused as a conflict.
C34_ConflictOnlyIfDifferent ==
    [][ (last'.op = "add_forward" /\ last'.msg = "already forwarded") =>
          \E i \in 1..Len(forwards) :
              /\ forwards[i].host_port = last'.host_port
              /\ forwards[i].protocol = last'.protocol
              /\ \/ forwards[i].container_name # last'.name
                 \/ forwards[i].container_port # last'.container_port
      ]_vars

\* a DNAT rule of the host port and protocol is installed
DnatInstalled(rules, host_port, protocol) ==
    \E r \in BagToSet(rules) :
        r.target = "DNAT" /\ r.dport = host_port /\ r.proto = protocol

\* C35: in every state, a host port and protocol that no rule of the registry
\* has, has no DNAT rule installed.
C35_NoRuleWithoutRegistry ==
    \A host_port \in HostPorts, protocol \in Protocols :
        ~Forwarded(forwards, host_port, protocol)
            => ~DnatInstalled(iptables, host_port, protocol)

(***************************************************************************)
(* Properties of the removal of exposed-port rules (SpecExposed).          *)
(***************************************************************************)
\* the numbers of the rules with the address as source or destination
RulesOf(chain, ip) == {i \in 1..Len(chain) : chain[i].src = ip \/ chain[i].dst = ip}

\* C36: a removal for an address keeps every rule whose source and
\* destination are other addresses, in the same order.
C36_RemovalOnlyOwn ==
    [][ (last'.op = "manage_exposed_ports" /\ last'.action = "remove") =>
          KeepUnselected(iptables', RulesOf(iptables', last'.ip), 1)
              = KeepUnselected(iptables, RulesOf(iptables, last'.ip), 1)
      ]_vars

(***************************************************************************)
(* Properties of the cleanup after an address change (SpecNet).            *)
(***************************************************************************)
\* C37: when the cleanup of a container with a saved record has removed the
\* rules of the saved address, the chain has no rule of any address the
\* runtime has given the container.
C37_CleanupAllAddresses ==
    [][ ( /\ last'.op = "cleanup_container_networking"
          /\ last'.name \in DOMAIN saved_ips
          /\ ~References(iptables', saved_ips[last'.name].ip) )
        => \A ip \in NetIps[last'.name] \ {""} : ~References(iptables', ip)
      ]_vars

(***************************************************************************)
(* Properties of the reconciliations when the listing fails (SpecCleanup). *)
(***************************************************************************)
\* C38: when `sudo lxc-ls` fails, cleanup_orphaned_entries and the cleanup
\* command leave the hosts file and the allocation registry as they were; and
\* when it succeeds they keep every entry of a listed container.
C38_FailedListingPrunesNothing ==
    [][ last'.op \in {"cleanup_orphaned_entries", "cleanup"} =>
          IF last'.lxc.ok
          THEN EntriesFor(etc_hosts', last'.lxc.names)
                   = EntriesFor(etc_hosts, last'.lxc.names)
          ELSE etc_hosts' = etc_hosts /\ registry' = registry
      ]_vars

(***************************************************************************)
(* Properties of remove_container on the registry (SpecSudo).              *)
(***************************************************************************)
\* C39: after remove_container of a name, with both files writable, the
\* allocation registry has no allocation of the name, whether the managed
\* section had an entry of it or not.
C39_RemoveReleases ==
    ( /\ last.op = "remove_container"
      /\ last.hosts_how # "denied" /\ last.alloc_how # "denied" )
        => last.name \notin DOMAIN registry.allocations

(***************************************************************************)
(* Properties of the start order of up (SpecOrder).                        *)
(***************************************************************************)
\* the positions of the name in the order
PositionsOf(order, name) == {i \in 1..Len(order) : order[i] = name}

\* C40: the computation of the start order ends, and the order has every
\* container of the configuration exactly once, after each container of the
\* configuration it depends on.
C40_OrderTerminates ==
    last.op = "container_order" =>
        /\ last.res = "ok"
        /\ \A k \in 1..Len(loc[1].containers) :
              LET name == loc[1].containers[k]
                  deps == loc[1].depends_on[name]
              IN  /\ Cardinality(PositionsOf(last.order, name)) = 1
                  /\ \A d \in 1..Len(deps) :
                        (InSeq(deps[d], loc[1].containers) /\ deps[d] # name)
                            => \A i \in PositionsOf(last.order, deps[d]) :
                                  \A j \in PositionsOf(last.order, name) : i < j

====
